---------------------------- MODULE Spec2Model ----------------------------
(***************************************************************************)
(* Hydropick: trace-number repair (io/survey_io.py, model/survey_line.py), *)
(* the depth-picking algorithms (model/algorithms.py) and the depth-line   *)
(* form that runs them (ui/survey_depth_line_view.py).                     *)
(*                                                                         *)
(* numpy arrays are sequences; a 0-based numpy index i is position i+1 of  *)
(* the sequence.  NaN is a number outside the range of every other value *)
(* of the model, and every operation on it is written out.  An exception   *)
(* leaving a function is an outcome string ("ValueError", ...).            *)
(***************************************************************************)
EXTENDS Integers, Sequences, FiniteSets, TLC

VARIABLES
    \* ---- the arrays of one survey line under repair (SpecRepair) ----
    trace_num,          \* SurveyLine.trace_num
    freq_trace_num,     \* SurveyLine.freq_trace_num : key -> array
    freq_index,         \* for each key, the global 0-based index of each of its columns
    bad_indices,        \* result of the last check_trace_num_array
    bad_values,
    logged,             \* the last check logged its warning
    op,                 \* the last call: "none", "check", "fix", "repair"
    outcome,            \* how it ended: "none", "returned", "ValueError", "IndexError"
    arg_trace_num,      \* trace_num as the last call received it
    arg_freq_trace_num, \* freq_trace_num as the last call received it
    raw_trace_num,      \* trace_num as the instrument file holds it
    done_before,        \* a repair had returned before the last call was made
    calls,              \* number of calls made so far
    \* ---- the survey, the depth-line form and its algorithm ----
    hdf5_file,              \* line name -> the raw data the project file holds
    survey_lines,           \* line name -> SurveyLine
    selected_survey_lines,  \* DepthLineView.selected_survey_lines (names, in order)
    data_session,           \* the line of DepthLineView.data_session, or "none"
    model,                  \* DepthLineView.model, the depth line being edited
    current_algorithm,      \* DepthLineView.current_algorithm
    result,                 \* the last process_line call and what it returned
    selected_depth_line_name, \* DepthLineView.selected_depth_line_name
    no_problem,             \* DepthLineView.no_problem
    reads,                  \* every read of freq_trace_num by process_line
    loads,                  \* every load_data call made
    handler,                \* the last handler run and the exception that left it
    handler_runs,           \* number of handlers run so far
    model_committed,        \* the depth_dict key whose entry IS the form's model, or "none"
    selected_target,        \* SurveyLineView.control_view.line_to_edit
    save_log,               \* the lines the last handler changed and those it saved
    \* ---- one call of an image primitive of model/algorithms.py ----
    image_call,             \* the function called, its arguments, what it returned
    \* ---- ControlView ----
    edit,                   \* ControlView.edit
    mark_bad_data_mode,     \* ControlView.mark_bad_data_mode
    control_log             \* the last events of the control view, the newest last

repairVars == <<trace_num, freq_trace_num, freq_index, bad_indices, bad_values,
                logged, op, outcome, arg_trace_num, arg_freq_trace_num,
                raw_trace_num, done_before, calls>>

viewVars == <<hdf5_file, survey_lines, selected_survey_lines, data_session,
              model, current_algorithm, selected_depth_line_name, no_problem,
              result, reads, loads, handler, handler_runs,
              model_committed, selected_target, save_log>>

imageVars == <<image_call>>

controlVars == <<edit, mark_bad_data_mode, control_log>>

vars == <<repairVars, viewVars, imageVars, controlVars>>

\* what the repair of the arrays, and what the form, leaves alone
besideRepair == <<viewVars, imageVars, controlVars>>
besideView == <<repairVars, imageVars, controlVars>>

-----------------------------------------------------------------------------
(* Bounds *)

\* longest trace_num array of a line under repair
MaxN == 3
\* calls of check / fix / array_sizes_ok made on one line
MaxCalls == 3
\* handlers run on the form and the survey
MaxRuns == 2
\* most form edits, selections and target changes in a behaviour
MaxSteps == 3

-----------------------------------------------------------------------------
(* Frequencies *)

\* the kHz keys of a line's frequencies / freq_trace_num dictionaries
FreqKeys == {24, 50, 200}

\* np.nan
NaN == -1000

-----------------------------------------------------------------------------
(* numpy helpers *)

\* np.arange(1, n + 1)
Arange1(n) == [i \in 1..n |-> i]

\* np.where(mask)[0]
Where(mask) == SelectSeq([i \in 1..Len(mask) |-> i - 1], LAMBDA j : mask[j + 1])

\* a[idx] for an array idx of 0-based indices
Take(a, idx) == [k \in 1..Len(idx) |-> a[idx[k] + 1]]

\* bool(array): empty is False, one element is that element's truth, more
\* elements raise ValueError
TruthValue(a) ==
    IF Len(a) = 0 THEN "False"
    ELSE IF Len(a) = 1 THEN (IF a[1] # 0 THEN "True" ELSE "False")
    ELSE "ValueError"

\* the orders in which a dictionary over the keys S may be iterated
Orders(S) == {s \in [1..Cardinality(S) -> S] :
                \A i, j \in 1..Cardinality(S) : i # j => s[i] # s[j]}

-----------------------------------------------------------------------------
(* io/survey_io.py *)

\* check_trace_num_array: bad indices and values, whether the truth test of
\* line 152 raised, whether the warning was logged
check_trace_num_array(trace_num_array) ==
    LET ref == [i \in 1..Len(trace_num_array) |-> (i - 1) + 1]
        diff == [i \in 1..Len(trace_num_array) |-> trace_num_array[i] - ref[i]]
        \* np.nonzero(diff)[0]: the 0-based indices of the non-zero entries
        bad == SelectSeq([i \in 1..Len(diff) |-> i - 1], LAMBDA j : diff[j + 1] # 0)
        vals == Take(trace_num_array, bad)
        truth == TruthValue(bad)
    IN  [bad_indices |-> bad,
         bad_values  |-> vals,
         raised      |-> truth = "ValueError",
         logged      |-> truth = "True"]

\* the inner loop of fix_trace_num_arrays (lines 172-176) from the k-th bad
\* index on: writes in place, stops at the first write outside the array
RECURSIVE WriteBad(_, _, _, _)
WriteBad(trace_array, indices_in_freq, bad_in_freq, k) ==
    IF k > Len(bad_in_freq) THEN [array |-> trace_array, raised |-> FALSE]
    ELSE LET index == bad_in_freq[k]
             \* np.searchsorted(indices_in_freq, index) on the sorted array
             i_in_freq == Cardinality({j \in 1..Len(indices_in_freq) :
                                          indices_in_freq[j] < index})
         IN  IF i_in_freq >= Len(trace_array)
             THEN [array |-> trace_array, raised |-> TRUE]
             ELSE WriteBad([trace_array EXCEPT ![i_in_freq + 1] = index + 1],
                           indices_in_freq, bad_in_freq, k + 1)

\* the body of the loop over the frequencies (lines 168-176) for one array
FixFreq(trace_num_array, bad, trace_array) ==
    LET \* np.where(np.in1d(trace_num_array, trace_array))[0]
        indices_in_freq == Where([i \in 1..Len(trace_num_array) |->
                                    \E j \in 1..Len(trace_array) :
                                        trace_array[j] = trace_num_array[i]])
        bad_in_freq == SelectSeq(bad,
                          LAMBDA b : \E j \in 1..Len(indices_in_freq) :
                                        indices_in_freq[j] = b)
    IN  WriteBad(trace_array, indices_in_freq, bad_in_freq, 1)

\* the loop over freq_trace_num.items() in the order `order`, from its k-th key
RECURSIVE FixFreqs(_, _, _, _, _)
FixFreqs(trace_num_array, bad, ftn, order, k) ==
    IF k > Len(order) THEN [freq_trace_num |-> ftn, raised |-> FALSE]
    ELSE LET r == FixFreq(trace_num_array, bad, ftn[order[k]])
             ftn2 == [ftn EXCEPT ![order[k]] = r.array]
         IN  IF r.raised THEN [freq_trace_num |-> ftn2, raised |-> TRUE]
             ELSE FixFreqs(trace_num_array, bad, ftn2, order, k + 1)

\* fix_trace_num_arrays ending with np.arange(len(trace_num_array))
fix_trace_num_arrays_from_zero(trace_num_array, bad, ftn, order) ==
    LET r == FixFreqs(trace_num_array, bad, ftn, order, 1)
    IN  [trace_num      |-> IF r.raised THEN trace_num_array
                            ELSE [i \in 1..Len(trace_num_array) |-> i - 1],
         freq_trace_num |-> r.freq_trace_num,
         raised         |-> r.raised]

\* fix_trace_num_arrays: the arrays of freq_trace_num are written in place, so
\* they keep the writes made before an IndexError; trace_num is a new array,
\* returned only when no write failed
fix_trace_num_arrays(trace_num_array, bad, ftn, order) ==
    LET r == FixFreqs(trace_num_array, bad, ftn, order, 1)
    IN  [trace_num      |-> IF r.raised THEN trace_num_array
                            ELSE Arange1(Len(trace_num_array)),
         freq_trace_num |-> r.freq_trace_num,
         raised         |-> r.raised]

-----------------------------------------------------------------------------
(* model/algorithms.py: image primitives                                    *)
(*                                                                         *)
(* An image is a sequence of columns, a column a sequence of pixels, row 0  *)
(* first.  Intensities are integers in units of a quarter of the full       *)
(* scale (0 is 0.0, 4 is 1.0), or NaN.  The results of the library routines *)
(* whose numerics are not modelled (the Gaussian mixture of                *)
(* _find_top_bottom, Otsu's threshold, the binary opening) are inputs of    *)
(* process_line, collected in the record `ext`.                             *)

\* kernel_size of _find_centers
KernelSize == 9

IsNaN(v) == v = NaN

NumRows(img) == IF Len(img) = 0 THEN 0 ELSE Len(img[1])

\* the pixels of an image, column after column
RECURSIVE Flatten(_)
Flatten(img) == IF Len(img) = 0 THEN <<>> ELSE img[1] \o Flatten(Tail(img))

\* the k-th smallest element of a sequence of numbers (k from 1)
KthSmallest(a, k) ==
    CHOOSE v \in {a[i] : i \in 1..Len(a)} :
        /\ Cardinality({i \in 1..Len(a) : a[i] < v}) < k
        /\ Cardinality({i \in 1..Len(a) : a[i] <= v}) >= k

\* entry k of the sort that puts the NaNs last, nums being the numbers
SortedAt(nums, k) == IF k <= Len(nums) THEN KthSmallest(nums, k) ELSE NaN

\* the mean of the two middle entries
Mean2(a, b) == IF IsNaN(a) \/ IsNaN(b) THEN NaN ELSE (a + b) \div 2

\* the median of n values of which nums are the numbers
MedianOf(nums, n, nan_mode) ==
    IF n = 0 THEN NaN
    ELSE IF Len(nums) < n /\ nan_mode = "nan" THEN NaN
    ELSE IF n % 2 = 1 THEN SortedAt(nums, (n + 1) \div 2)
    ELSE Mean2(SortedAt(nums, n \div 2), SortedAt(nums, n \div 2 + 1))

\* np.median of a 1-D array.  With a NaN in the array the build decides:
\* "nan" gives NaN, "sorted" takes the middle of the sort that puts NaN last.
Median(a, nan_mode) == MedianOf(SelectSeq(a, LAMBDA v : ~IsNaN(v)), Len(a), nan_mode)

\* np.argmax of a column: the first NaN if there is one, else the first maximum
ArgMax(col) ==
    IF \E r \in 1..Len(col) : IsNaN(col[r])
    THEN (CHOOSE r \in 1..Len(col) :
            IsNaN(col[r]) /\ \A q \in 1..(r - 1) : ~IsNaN(col[q])) - 1
    ELSE (CHOOSE r \in 1..Len(col) :
            /\ \A q \in 1..Len(col) : col[q] <= col[r]
            /\ \A q \in 1..(r - 1) : col[q] < col[r]) - 1

\* the window of kernel_size entries around entry j, the array padded with zeros
Window(a, j, kernel_size) ==
    [w \in 1..kernel_size |->
        IF j - (kernel_size \div 2) + w - 1 >= 1 /\ j - (kernel_size \div 2) + w - 1 <= Len(a)
        THEN a[j - (kernel_size \div 2) + w - 1]
        ELSE 0]

\* scipy.signal.medfilt: the median of the window around each entry
MedFilt(a, kernel_size) ==
    [j \in 1..Len(a) |-> KthSmallest(Window(a, j, kernel_size), kernel_size \div 2 + 1)]

\* _find_centers
_find_centers(img) ==
    MedFilt([i \in 1..Len(img) |-> ArgMax(img[i])], KernelSize)

\* img < threshold (a comparison with NaN is False)
Below(img, threshold) ==
    [i \in 1..Len(img) |->
        [r \in 1..Len(img[i]) |-> ~IsNaN(img[i][r]) /\ img[i][r] < threshold]]

\* the masks a binary opening may return: it never adds a pixel
Openings(mask) ==
    {m \in [1..Len(mask) -> [1..NumRows(mask) -> BOOLEAN]] :
        \A i \in 1..Len(mask) : \A r \in 1..NumRows(mask) :
            m[i][r] => mask[i][r]}

\* the levels between the smallest and the largest of the pixel values px
LevelsWithin(px) ==
    IF px = {} THEN {0}
    ELSE {t \in {0, 2, 4} : (\E v \in px : v <= t) /\ (\E w \in px : t <= w)}

\* the numbers among the entries of a sequence
Numbers(flat) == {v \in {flat[k] : k \in 1..Len(flat)} : ~IsNaN(v)}

\* the thresholds Otsu's method may return: a level of the image's range
AutoThresholds(img) == LevelsWithin(Numbers(Flatten(img)))

\* the largest / smallest of a set of row indices, NaN for the empty set
LastOf(hits) == IF hits # {} THEN CHOOSE r \in hits : \A q \in hits : q <= r ELSE NaN
FirstOf(hits) == IF hits # {} THEN CHOOSE r \in hits : \A q \in hits : r <= q ELSE NaN

\* _first_point_above: the last True of x[:p], or NaN
_first_point_above(x, p) == LastOf({r \in 0..(Len(x) - 1) : r < p /\ x[r + 1]})

\* _first_point_below searching the whole column
_first_point_below_whole_column(x, p) == FirstOf({r \in 0..(Len(x) - 1) : x[r + 1]})

\* _first_point_below: the first True of x[p:], or NaN
_first_point_below(x, p) == FirstOf({r \in 0..(Len(x) - 1) : r >= p /\ x[r + 1]})

\* _find_edge
_find_edge(binary_img, centers, surface) ==
    [i \in 1..Len(centers) |->
        IF surface = "upper" THEN _first_point_above(binary_img[i], centers[i])
        ELSE _first_point_below(binary_img[i], centers[i])]

\* round half to even of num / den, den > 0 (ndarray.round(0))
RoundHalfEven(num, den) ==
    IF 2 * (num - (num \div den) * den) < den THEN num \div den
    ELSE IF 2 * (num - (num \div den) * den) > den THEN (num \div den) + 1
    ELSE IF (num \div den) % 2 = 0 THEN num \div den ELSE (num \div den) + 1

\* the linear interpolation between sample points k and k + 1, rounded
Between(x, xp, fp, k) ==
    RoundHalfEven(fp[k] * (xp[k + 1] - xp[k]) + (x - xp[k]) * (fp[k + 1] - fp[k]),
                  xp[k + 1] - xp[k])

\* np.interp with NaN outside the sample points, then round
InterpRoundInside(x, xp, fp) ==
    IF x < xp[1] \/ x > xp[Len(xp)] THEN NaN
    ELSE IF x = xp[Len(xp)] THEN fp[Len(xp)]
    ELSE Between(x, xp, fp, CHOOSE j \in 1..(Len(xp) - 1) : xp[j] <= x /\ x < xp[j + 1])

\* np.interp at x over the sample points xp (0-based indices, increasing)
\* with values fp, then round: the ends are held constant
InterpRound(x, xp, fp) ==
    IF x <= xp[1] THEN fp[1]
    ELSE IF x >= xp[Len(xp)] THEN fp[Len(xp)]
    ELSE Between(x, xp, fp, CHOOSE j \in 1..(Len(xp) - 1) : xp[j] <= x /\ x < xp[j + 1])

\* y with its NaNs interpolated over the sample points xp, values fp
InterpolateOver(y, xp, fp) ==
    IF Len(xp) = 0 THEN [status |-> "ValueError", y |-> y]
    ELSE [status |-> "ok",
          y |-> [i \in 1..Len(y) |->
                    IF IsNaN(y[i]) THEN InterpRound(i - 1, xp, fp) ELSE y[i]]]

\* the 0-based indices of the entries that are not NaN
NotNaN(y) == Where([i \in 1..Len(y) |-> ~IsNaN(y[i])])

\* _interpolate_nans that answers zeros when every value is NaN
_interpolate_nans_zero_fill(y) ==
    IF \A j \in 1..Len(y) : IsNaN(y[j])
    THEN [status |-> "ok", y |-> [i \in 1..Len(y) |-> 0]]
    ELSE InterpolateOver(y, NotNaN(y), Take(y, NotNaN(y)))

\* _interpolate_nans: np.interp raises ValueError on an empty set of sample
\* points, that is when every value is NaN
_interpolate_nans(y) == InterpolateOver(y, NotNaN(y), Take(y, NotNaN(y)))

\* line 250 for the interpolated array r: heave is subtracted element by
\* element; an array of one element is stretched to the length of the other
ToDepth(r, depth_array, pixel_resolution, draft, heave) ==
    IF r.status # "ok" THEN [status |-> r.status, depth_array |-> depth_array]
    ELSE IF Len(heave) # Len(r.y) /\ Len(heave) # 1 /\ Len(r.y) # 1
    THEN [status |-> "ValueError", depth_array |-> depth_array]
    ELSE [status |-> "ok",
          depth_array |->
              [i \in 1..(IF Len(r.y) = 1 THEN Len(heave) ELSE Len(r.y)) |->
                  IF IsNaN(r.y[IF Len(r.y) = 1 THEN 1 ELSE i]) THEN NaN
                  ELSE r.y[IF Len(r.y) = 1 THEN 1 ELSE i] * pixel_resolution + draft
                         - heave[IF Len(heave) = 1 THEN 1 ELSE i]]]

\* _convert_to_depth
_convert_to_depth(depth_array, pixel_resolution, draft, heave) ==
    ToDepth(_interpolate_nans(depth_array), depth_array, pixel_resolution, draft, heave)

-----------------------------------------------------------------------------
(* model/algorithms.py: the two algorithms                                  *)
(*                                                                         *)
(* A helper that receives the survey line returns, next to its result, the  *)
(* survey line as the call leaves it: a helper that works on a copy returns *)
(* it as it was.                                                            *)

\* buf of _find_top_bottom
Buf == 5

\* sorted(S) for a set of numbers
SortedSeq(S) ==
    CHOOSE s \in [1..Cardinality(S) -> S] :
        \A i, j \in 1..Cardinality(S) : i < j => s[i] < s[j]

\* the dictionary _freq_dict returns for the sorted keys
FreqDictOf(sorted) ==
    [status |-> "ok",
     dict |-> [label \in {"200", "50", "24"} |->
                 IF label = "200" THEN sorted[3]
                 ELSE IF label = "50" THEN sorted[2] ELSE sorted[1]]]

\* _freq_dict: the three keys in increasing order are '24', '50', '200';
\* unpacking any other number of keys raises ValueError
_freq_dict(keys) ==
    IF Cardinality(keys) # 3 THEN [status |-> "ValueError"]
    ELSE FreqDictOf(SortedSeq(keys))

\* img with its NaN pixels replaced by m
Filled(img, m) ==
    [i \in 1..Len(img) |->
        [r \in 1..Len(img[i]) |-> IF IsNaN(img[i][r]) THEN m ELSE img[i][r]]]

\* intensity[np.isnan(intensity)] = np.median(intensity)
FillNaN(img, nan_mode) == Filled(img, Median(Flatten(img), nan_mode))

\* lines 281-286 for the key `key` of the chosen frequency, the filled
\* raster written into `target`: the line itself when there is no copy
IntensityOf(survey_line, key, filled, in_place) ==
    [status |-> "ok",
     intensity |-> filled,
     freq_trace_array |-> survey_line.freq_trace_num[key],
     survey_line |-> IF in_place THEN [survey_line EXCEPT !.frequencies[key] = filled]
                     ELSE survey_line]

\* lines 280-286 for the dictionary fd of _freq_dict
GetIntensity(survey_line, freq, ext, fd, in_place) ==
    IF fd.status # "ok" THEN [status |-> fd.status, survey_line |-> survey_line]
    ELSE IF fd.dict[freq] \notin DOMAIN survey_line.freq_trace_num
    THEN [status |-> "KeyError", survey_line |-> survey_line]
    ELSE IntensityOf(survey_line, fd.dict[freq],
                     FillNaN(survey_line.frequencies[fd.dict[freq]], ext.nan_mode),
                     in_place)

\* _get_intensity without the .copy(): the fill is written into the line
_get_intensity_no_copy(survey_line, freq, ext) ==
    GetIntensity(survey_line, freq, ext, _freq_dict(DOMAIN survey_line.frequencies), TRUE)

\* _get_intensity: the raster of the line is copied, the copy is filled
_get_intensity(survey_line, freq, ext) ==
    GetIntensity(survey_line, freq, ext, _freq_dict(DOMAIN survey_line.frequencies), FALSE)

\* a / b truncated toward zero, b > 0 (astype(np.int))
TruncDiv(a, b) == IF a >= 0 THEN a \div b ELSE -((-a) \div b)

\* _get_current_surface: the depth array of the named line is copied, the
\* copy is shifted by heave - draft and turned into pixel rows
_get_current_surface(survey_line, current_surface_line_name) ==
    IF current_surface_line_name \notin DOMAIN survey_line.lake_depths
    THEN [status |-> "KeyError", survey_line |-> survey_line]
    ELSE IF Len(survey_line.heave)
              # Len(survey_line.lake_depths[current_surface_line_name].depth_array)
            /\ Len(survey_line.heave) # 1
    THEN [status |-> "ValueError", survey_line |-> survey_line]
    ELSE [status |-> "ok",
          locs |-> [i \in 1..Len(survey_line.lake_depths[current_surface_line_name].depth_array) |->
                      TruncDiv(survey_line.lake_depths[current_surface_line_name].depth_array[i]
                                 + survey_line.heave[IF Len(survey_line.heave) = 1 THEN 1 ELSE i]
                                 - survey_line.draft,
                               survey_line.pixel_resolution)],
          survey_line |-> survey_line]

\* the number of rows intensity[:p, i] takes of a column of `rows` rows: a
\* negative p counts from the last row
StopRow(p, rows) ==
    IF p >= 0 THEN (IF p > rows THEN rows ELSE p)
    ELSE (IF rows + p < 0 THEN 0 ELSE rows + p)

\* a column with its rows 0..stop-1 set to their median
ClearedColumn(col, stop, nan_mode) ==
    [r \in 1..Len(col) |->
        IF r <= stop THEN Median(SubSeq(col, 1, stop), nan_mode) ELSE col[r]]

\* _clear_image_above_line: rows 0..p-1 of column i become their median
_clear_image_above_line(intensity, current_surface_locs, ext) ==
    [i \in 1..Len(intensity) |->
        ClearedColumn(intensity[i], StopRow(current_surface_locs[i], Len(intensity[i])),
                      ext.nan_mode)]

\* a[idx] for 0-based indices that may be negative or out of range
TakeChecked(a, idx) ==
    IF \E k \in 1..Len(idx) : idx[k] >= Len(a) \/ idx[k] < -Len(a)
    THEN [status |-> "IndexError"]
    ELSE [status |-> "ok",
          array |-> [k \in 1..Len(idx) |->
                        a[(IF idx[k] < 0 THEN idx[k] + Len(a) ELSE idx[k]) + 1]]]

\* a[idx] = values, written in order, from the k-th index on
RECURSIVE ScatterFrom(_, _, _, _)
ScatterFrom(a, idx, values, k) ==
    IF k > Len(idx) THEN a
    ELSE ScatterFrom([a EXCEPT ![(IF idx[k] < 0 THEN idx[k] + Len(a) ELSE idx[k]) + 1] =
                                   IF Len(values) = 1 THEN values[1] ELSE values[k]],
                     idx, values, k + 1)

\* depth_array[freq_trace_array - 1] = values
Scatter(a, idx, values) ==
    IF \E k \in 1..Len(idx) : idx[k] >= Len(a) \/ idx[k] < -Len(a)
    THEN [status |-> "IndexError", array |-> a]
    ELSE IF Len(values) # Len(idx) /\ Len(values) # 1
    THEN [status |-> "ValueError", array |-> a]
    ELSE [status |-> "ok", array |-> ScatterFrom(a, idx, values, 1)]

\* rows top..bot-1 of every column (intensity[top:bot, :])
RowSlice(img, top, bot) ==
    [i \in 1..Len(img) |->
        SubSeq(img[i], top + 1, IF bot > Len(img[i]) THEN Len(img[i]) ELSE bot)]

\* freq_trace_array - 1
MinusOne(a) == [k \in 1..Len(a) |-> a[k] - 1]

\* a failed call: the exception, nothing returned
Raised(exception, survey_line) ==
    [status |-> exception, trace_array |-> <<>>, depth_array |-> <<>>,
     scattered |-> <<>>, covered |-> <<>>, survey_line |-> survey_line]

\* the return of process_line for the scattered array sc and its conversion cd
Returned(survey_line, line_after, freq_trace_array, sc, cd) ==
    [status |-> cd.status,
     trace_array |-> IF cd.status = "ok" THEN survey_line.trace_num ELSE <<>>,
     depth_array |-> IF cd.status = "ok" THEN cd.depth_array ELSE <<>>,
     scattered |-> sc.array,
     covered |-> freq_trace_array,
     survey_line |-> line_after]

\* lines 104-109 and 173-178 for the scattered array sc
Converted(survey_line, line_after, freq_trace_array, sc) ==
    IF sc.status # "ok" THEN Raised(sc.status, line_after)
    ELSE Returned(survey_line, line_after, freq_trace_array, sc,
                  _convert_to_depth(sc.array, survey_line.pixel_resolution,
                                    survey_line.draft, survey_line.heave))

\* lines 100-109 and 169-178: scatter the edges, convert to depth, return
ScatterAndConvert(survey_line, line_after, freq_trace_array, edges) ==
    Converted(survey_line, line_after, freq_trace_array,
              Scatter([i \in 1..Len(survey_line.trace_num) |-> NaN],
                      MinusOne(freq_trace_array), edges))

\* centers + top
Shifted(centers, top) == [i \in 1..Len(centers) |-> centers[i] + top]

\* lines 98-109 for the band of rows between top and bot
CurrentSurfaceOfBand(self, survey_line, ext, gi, band) ==
    IF NumRows(band) = 0 THEN Raised("ValueError", gi.survey_line)
    ELSE ScatterAndConvert(survey_line, gi.survey_line, gi.freq_trace_array,
                           _find_edge(ext.binary_img,
                                      Shifted(_find_centers(band), ext.top), "upper"))

\* lines 85-109 for the intensity gi of _get_intensity
CurrentSurfaceOf(self, survey_line, ext, gi) ==
    IF gi.status # "ok" THEN Raised(gi.status, gi.survey_line)
    ELSE IF ext.find_top_bottom # "ok"
    THEN Raised(ext.find_top_bottom, gi.survey_line)
    ELSE IF self.blank_above_distance > 0 \/ self.blank_below_distance > 0
    THEN \* a Python float has no astype
         Raised("AttributeError", gi.survey_line)
    ELSE CurrentSurfaceOfBand(self, survey_line, ext, gi,
                              RowSlice(gi.intensity, ext.top, ext.bottom_row + Buf))

\* ThresholdCurrentSurface.process_line
ThresholdCurrentSurface_process_line(self, survey_line, ext) ==
    CurrentSurfaceOf(self, survey_line, ext,
                     _get_intensity(survey_line, self.frequency, ext))

\* lines 160-178 for the rows locs of the current surface at the columns
PreImpoundmentOfLocs(self, survey_line, ext, gi, cs, locs) ==
    IF locs.status # "ok" THEN Raised(locs.status, cs.survey_line)
    ELSE ScatterAndConvert(survey_line, cs.survey_line, gi.freq_trace_array,
                           _find_edge(ext.binary_img,
                                      _find_centers(_clear_image_above_line(
                                          gi.intensity, locs.array, ext)),
                                      "lower"))

\* lines 159-178 for the current surface cs of _get_current_surface
PreImpoundmentOfSurface(self, survey_line, ext, gi, cs) ==
    IF cs.status # "ok" THEN Raised(cs.status, cs.survey_line)
    ELSE PreImpoundmentOfLocs(self, survey_line, ext, gi, cs,
                              TakeChecked(cs.locs, MinusOne(gi.freq_trace_array)))

\* lines 158-178 for the intensity gi of _get_intensity
PreImpoundmentOf(self, survey_line, ext, gi) ==
    IF gi.status # "ok" THEN Raised(gi.status, gi.survey_line)
    ELSE PreImpoundmentOfSurface(self, survey_line, ext, gi,
                                 _get_current_surface(gi.survey_line,
                                                      self.current_surface_line))

\* ThresholdPreImpoundmentSurface.process_line
ThresholdPreImpoundmentSurface_process_line(self, survey_line, ext) ==
    PreImpoundmentOf(self, survey_line, ext,
                     _get_intensity(survey_line, self.frequency, ext))

\* algorithm.process_line for the configured algorithm
process_line(self, survey_line, ext) ==
    IF self.name = "ThresholdCurrentSurface"
    THEN ThresholdCurrentSurface_process_line(self, survey_line, ext)
    ELSE ThresholdPreImpoundmentSurface_process_line(self, survey_line, ext)

\* the image cleared above the rows locs, the filled image when they are
\* out of range
ClearedOrFilled(gi, locs, ext) ==
    IF locs.status # "ok" THEN gi.intensity
    ELSE _clear_image_above_line(gi.intensity, locs.array, ext)

\* the image the pre-impoundment algorithm thresholds
PreImage(gi, cs, ext) ==
    IF cs.status # "ok" THEN gi.intensity
    ELSE ClearedOrFilled(gi, TakeChecked(cs.locs, MinusOne(gi.freq_trace_array)), ext)

\* the image the threshold is applied to, for the intensity gi
ImageOf(self, survey_line, ext, gi) ==
    IF gi.status # "ok" THEN <<>>
    ELSE IF self.name = "ThresholdCurrentSurface" THEN gi.intensity
    ELSE PreImage(gi, _get_current_surface(survey_line, self.current_surface_line), ext)

\* the image the threshold is applied to: the filled raster, cleared above
\* the current surface for the pre-impoundment algorithm
ThresholdedImage(self, survey_line, ext) ==
    ImageOf(self, survey_line, ext, _get_intensity(survey_line, self.frequency, ext))

\* what np.median and _find_top_bottom may return for rasters of `rows`
\* rows, with or without NaN pixels
BaseExts(self, rows, holes) ==
    {e \in [nan_mode : IF holes THEN {"nan", "sorted"} ELSE {"nan"},
            find_top_bottom : IF self.name = "ThresholdCurrentSurface"
                              THEN {"ok", "IndexError"} ELSE {"ok"},
            top : IF self.name = "ThresholdCurrentSurface" THEN 0..rows ELSE {0},
            bottom_row : {rows - 1},
            auto_threshold : {0},
            actual_threshold : {0},
            binary_img : {<<>>}] :
        e.find_top_bottom = "ok" \/ e.top = 0}

\* lines 92-95 and 162-165 with the offset added to a manual threshold too
ActualThreshold_offset_always(self, auto) ==
    IF self.threshold < 0 THEN auto + self.threshold_offset
    ELSE self.threshold + self.threshold_offset

\* the threshold of lines 92-95 and 162-165 for Otsu's threshold `auto`
ActualThreshold(self, auto) ==
    IF self.threshold < 0 THEN auto + self.threshold_offset
    ELSE self.threshold

\* e0 with Otsu's threshold of the image, the threshold applied and an
\* opening of the mask
WithThreshold(self, e0, img) ==
    UNION {{[e0 EXCEPT !.auto_threshold = auto,
                       !.actual_threshold = ActualThreshold(self, auto),
                       !.binary_img = m] :
               m \in Openings(Below(img, ActualThreshold(self, auto)))} :
           auto \in (IF self.threshold < 0 THEN AutoThresholds(img) ELSE {0})}

\* what the library routines may return for this call: the NaN behaviour of
\* np.median; from _find_top_bottom an IndexError when no row passes its
\* tests, or the first row of the band (the number of rows when the band is
\* empty) and the last row above the floor of the mixture (with no more than
\* Buf rows the band then ends at the last row of the image); Otsu's
\* threshold; the opened mask of _apply_threshold
Exts(self, survey_line) ==
    UNION {WithThreshold(self, e0, ThresholdedImage(self, survey_line, e0)) :
           e0 \in BaseExts(self,
                            \* the rows of the line's rasters
                            IF DOMAIN survey_line.frequencies = {} THEN 0
                            ELSE NumRows(survey_line.frequencies[
                                     CHOOSE k \in DOMAIN survey_line.frequencies : TRUE]),
                            \* the line has a NaN pixel
                            \E k \in DOMAIN survey_line.frequencies :
                                \E i \in 1..Len(survey_line.frequencies[k]) :
                                    \E r \in 1..Len(survey_line.frequencies[k][i]) :
                                        IsNaN(survey_line.frequencies[k][i][r]))}

-----------------------------------------------------------------------------
(* Raw instrument data *)

\* trace numbers as the instrument writes them: 1-based and non-decreasing,
\* with skipped and duplicated numbers
RawTraceNums(n) == {s \in [1..n -> 1..(MaxN + 1)] :
                      \A i \in 1..(n - 1) : s[i] <= s[i + 1]}

\* the 0-based indices of the traces a frequency owns under `assign`
IndicesOf(assign, n, key) ==
    SelectSeq([i \in 1..n |-> i - 1], LAMBDA j : assign[j + 1] = key)

-----------------------------------------------------------------------------
(* The survey: lines, the project file, depth lines                         *)

\* the survey lines of the project
LineNames == {"L1", "L2"}

\* ALGORITHM_LIST
AlgorithmNames == {"ThresholdCurrentSurface", "ThresholdPreImpoundmentSurface"}

\* arglist of each algorithm class
ArgList(name) ==
    IF name = "ThresholdCurrentSurface"
    THEN <<"frequency", "threshold", "threshold_offset",
           "blank_above_distance", "blank_below_distance">>
    ELSE <<"frequency", "threshold", "threshold_offset", "current_surface_line">>

\* a new instance of an algorithm class: the defaults of its traits.  A
\* negative threshold asks for the automatic one.
DefaultAlgorithm(name) ==
    [name |-> name,
     frequency |-> "200",
     threshold |-> -1,
     threshold_offset |-> 0,
     blank_above_distance |-> -1,
     blank_below_distance |-> -1,
     current_surface_line |-> "current_surface_from_bin"]

\* current_algorithm is None
NoAlgorithm == DefaultAlgorithm("none")

\* _get_alg_arg_dict
alg_arg_dict(alg) ==
    IF alg.name = "none" THEN <<>>
    ELSE [a \in {ArgList(alg.name)[k] : k \in 1..Len(ArgList(alg.name))} |-> alg[a]]

\* a DepthLine object
DepthLine(name, survey_line_name, line_type, source, source_name, args, index_array, depth_array, lock) ==
    [name |-> name,
     survey_line_name |-> survey_line_name,
     line_type |-> line_type,
     source |-> source,
     source_name |-> source_name,
     args |-> args,
     index_array |-> index_array,
     depth_array |-> depth_array,
     edited |-> FALSE,
     lock |-> lock,
     \* not a trait: the source and arguments that produced the arrays
     arrays_from |-> [source |-> source, args |-> args]]

\* a SurveyLine as the import constructs it: no data loaded
EmptyLine(name) ==
    [name |-> name,
     trace_num |-> <<>>,
     freq_trace_num |-> <<>>,
     frequencies |-> <<>>,
     heave |-> <<>>,
     draft |-> 0,
     pixel_resolution |-> 0,
     lake_depths |-> <<>>,
     preimpoundment_depths |-> <<>>,
     final_lake_depth |-> "current_surface_from_bin",
     final_preimpoundment_depth |-> ""]

\* the intensity column the instrument recorded for trace j (0-based): two
\* pixels, the strong return in the lower pixel of the even traces and in the
\* upper pixel of the odd ones; with holes the first column lacks a pixel
RawColumn(j, holes) ==
    IF holes /\ j = 0 THEN <<NaN, 4>>
    ELSE IF j % 2 = 0 THEN <<0, 4>>
    ELSE <<4, 0>>

\* what the project file holds for one line with raw trace numbers tn, the
\* trace of index j recorded at frequency assign[j + 1]
RawFile(tn, assign, holes) ==
    [trace_num |-> tn,
     assign |-> assign,
     intensity |-> [i \in 1..Len(tn) |-> RawColumn(i - 1, holes)],
     heave |-> [i \in 1..Len(tn) |-> (i - 1) % 2],
     draft |-> 2,
     pixel_resolution |-> 1,
     depth_r1 |-> [i \in 1..Len(tn) |-> 3],
     filepath |-> "line.bin",
     current |-> <<>>,
     preimpoundment |-> <<>>]

\* the pings cycle through the three frequencies
Cyclic(n) == [i \in 1..n |-> IF i % 3 = 1 THEN 200 ELSE IF i % 3 = 2 THEN 50 ELSE 24]

\* the frequencies a file holds
KeysOf(file) == {file.assign[i] : i \in 1..Len(file.assign)}

\* d with d[key] = value added or replaced
DictSet(d, key, value) ==
    [k \in (DOMAIN d) \cup {key} |-> IF k = key THEN value ELSE d[k]]

\* SurveyLine.load_data, lines 161-176: the arrays as read from the file
Populate(survey_line, file) ==
    [survey_line EXCEPT
        !.frequencies = [k \in KeysOf(file) |->
                           Take(file.intensity,
                                IndicesOf(file.assign, Len(file.trace_num), k))],
        !.freq_trace_num = [k \in KeysOf(file) |->
                              Take(file.trace_num,
                                   IndicesOf(file.assign, Len(file.trace_num), k))],
        !.trace_num = file.trace_num,
        !.draft = file.draft,
        !.heave = file.heave,
        !.pixel_resolution = file.pixel_resolution]

\* lines 228-229 for the result f of fix_trace_num_arrays: the fix writes
\* into the arrays the line holds, so what it wrote before raising stays
StoreFixed(survey_line, f) ==
    IF f.raised
    THEN [status |-> "IndexError",
          survey_line |-> [survey_line EXCEPT !.freq_trace_num = f.freq_trace_num]]
    ELSE [status |-> "ok",
          survey_line |-> [survey_line EXCEPT
                              !.trace_num = f.trace_num,
                              !.freq_trace_num = f.freq_trace_num]]

\* lines 225-229 for the result c of check_trace_num_array
FixChecked(survey_line, c, order) ==
    IF c.raised THEN [status |-> "ValueError", survey_line |-> survey_line]
    ELSE StoreFixed(survey_line,
                    fix_trace_num_arrays(survey_line.trace_num, c.bad_indices,
                                         survey_line.freq_trace_num, order))

\* SurveyLine.array_sizes_ok, lines 223-229
array_sizes_ok(survey_line, order) ==
    FixChecked(survey_line, check_trace_num_array(survey_line.trace_num), order)

\* lines 182-191: the depth line of the instrument's own picks
SdiSurface(survey_line, file) ==
    DepthLine("current_surface_from_bin", survey_line.name, "current surface",
              "sdi_file", file.filepath, <<>>,
              MinusOne(survey_line.trace_num), file.depth_r1, TRUE)

\* lines 194-197 for the file with the depth line written
ReadPickLines(survey_line, written) ==
    [status |-> "ok",
     survey_line |-> [survey_line EXCEPT
                         !.lake_depths = written.current,
                         !.preimpoundment_depths = written.preimpoundment],
     file |-> written]

\* lines 181-197 for the result r of array_sizes_ok
LoadRepaired(r, file) ==
    IF r.status # "ok"
    THEN [status |-> r.status, survey_line |-> r.survey_line, file |-> file]
    ELSE ReadPickLines(r.survey_line,
                       [file EXCEPT
                           !.current = DictSet(@, "current_surface_from_bin",
                                               SdiSurface(r.survey_line, file))])

\* SurveyLine.load_data: populate, repair, write the instrument's own depth
\* line to the file and read the line's depth lines back
load_data(survey_line, file, order) ==
    LoadRepaired(array_sizes_ok(Populate(survey_line, file), order), file)

-----------------------------------------------------------------------------
(* ui/survey_depth_line_view.py: the depth-line form                        *)

\* create_new_line: the template of a new depth line
create_new_line(survey_line_name) ==
    DepthLine("Type New Name", survey_line_name, "pre-impoundment surface",
              "algorithm", "", <<>>, <<>>, <<>>, FALSE)

\* the template after the user chose the line type and the algorithm in the
\* form and configured the algorithm: _update_source_name sets source_name,
\* update_model_args sets args
Configured(m, alg) ==
    [m EXCEPT !.line_type = IF alg.name = "ThresholdCurrentSurface"
                            THEN "current surface"
                            ELSE "pre-impoundment surface",
              !.source_name = alg.name,
              !.args = alg_arg_dict(alg)]

\* zero_out_array_data
zero_out_array_data(m) == [m EXCEPT !.index_array = <<>>, !.depth_array = <<>>]

\* set_alg_args: the arguments are set in arglist order until one is missing
RECURSIVE set_alg_args(_, _, _)
set_alg_args(alg, model_args, k) ==
    IF k > Len(ArgList(alg.name)) THEN alg
    ELSE IF ArgList(alg.name)[k] \notin DOMAIN model_args THEN alg
    ELSE set_alg_args([alg EXCEPT ![ArgList(alg.name)[k]] = model_args[ArgList(alg.name)[k]]],
                      model_args, k + 1)

\* update_model_args after the new instance `fresh` became `alg`: whenever
\* the algorithm's arguments differ from the model's the model takes them
\* and its arrays are emptied
AlgorithmSet(m, fresh, alg) ==
    [status |-> "ok",
     current_algorithm |-> alg,
     model |-> IF m.args = alg_arg_dict(fresh) /\ alg = fresh THEN m
               ELSE zero_out_array_data([m EXCEPT !.args = alg_arg_dict(alg)])]

\* lines 541-545: the new instance is given the model's arguments
ConfigureFresh(m, fresh) ==
    AlgorithmSet(m, fresh,
                 IF DOMAIN m.args = {} THEN fresh ELSE set_alg_args(fresh, m.args, 1))

\* set_current_algorithm, with update_model_args listening to the algorithm
set_current_algorithm(m) ==
    IF m.source_name \notin AlgorithmNames
    THEN [status |-> "KeyError", current_algorithm |-> NoAlgorithm, model |-> m]
    ELSE ConfigureFresh(m, DefaultAlgorithm(m.source_name))

\* check_arrays: the arrays are not empty and of equal size
ArraysOk(m) ==
    /\ Len(m.depth_array) # 0
    /\ Len(m.index_array) # 0
    /\ Len(m.depth_array) = Len(m.index_array)

\* lines 575-577 for the result pl of process_line, the index_array written
\* with `offset` subtracted
WriteArrays(m, pl, offset, args) ==
    [status |-> pl.status,
     model |-> IF pl.status # "ok" THEN m
               ELSE [m EXCEPT
                        !.index_array = [i \in 1..Len(pl.trace_array) |->
                                            pl.trace_array[i] - offset],
                        !.depth_array = pl.depth_array,
                        !.arrays_from = [source |-> "algorithm", args |-> args]],
     survey_line |-> pl.survey_line,
     pl |-> pl]

\* make_from_algorithm with the index_array written one too high
make_from_algorithm_one_based(m, survey_line, algorithm, ext) ==
    WriteArrays(m, process_line(algorithm, survey_line, ext), 0, alg_arg_dict(algorithm))

\* make_from_algorithm: run the algorithm, write its arrays into the model
make_from_algorithm(m, survey_line, algorithm, ext) ==
    WriteArrays(m, process_line(algorithm, survey_line, ext), 1, alg_arg_dict(algorithm))

\* the record kept of a process_line call
CallRecord(path, line_name, line_before, model_before, mk) ==
    [called |-> TRUE,
     path |-> path,
     line |-> line_name,
     status |-> mk.pl.status,
     trace_array |-> mk.pl.trace_array,
     depth_array |-> mk.pl.depth_array,
     scattered |-> mk.pl.scattered,
     covered |-> mk.pl.covered,
     line_before |-> line_before,
     model_before |-> model_before]

NoCall ==
    [called |-> FALSE, path |-> "none", line |-> "none", status |-> "none",
     trace_array |-> <<>>, depth_array |-> <<>>, scattered |-> <<>>,
     covered |-> <<>>, line_before |-> EmptyLine("none"),
     model_before |-> DepthLine("", "", "", "", "", <<>>, <<>>, <<>>, FALSE)]

\* nothing changed, nothing saved
NothingSaved == [edits |-> {}, saves |-> {}]

\* what is known of the last load_data call on a line
NotLoaded == [called |-> FALSE, status |-> "none", populated |-> FALSE, repair_runs |-> 0]

\* no image primitive called
ImageIdle == image_call = [fn |-> "none"]

\* ControlView as SurveyLineView._control_view_default creates it
ControlIdle ==
    /\ edit = "Not Editing"
    /\ mark_bad_data_mode = "off"
    /\ control_log = <<>>

\* the view and the survey while only the arrays of SpecRepair are exercised
ViewIdle ==
    /\ hdf5_file = [l \in LineNames |-> RawFile(<<>>, <<>>, FALSE)]
    /\ survey_lines = [l \in LineNames |-> EmptyLine(l)]
    /\ selected_survey_lines = <<>>
    /\ data_session = "none"
    /\ model = NoCall.model_before
    /\ current_algorithm = NoAlgorithm
    /\ selected_depth_line_name = "none"
    /\ no_problem = FALSE
    /\ result = NoCall
    /\ reads = {}
    /\ loads = [l \in LineNames |-> NotLoaded]
    /\ handler = <<"none", "none">>
    /\ handler_runs = 0
    /\ model_committed = "none"
    /\ selected_target = "None"
    /\ save_log = NothingSaved

\* the arrays of SpecRepair while the view is exercised
RepairIdle ==
    /\ trace_num = <<>>
    /\ freq_trace_num = <<>>
    /\ freq_index = <<>>
    /\ bad_indices = <<>>
    /\ bad_values = <<>>
    /\ logged = FALSE
    /\ op = "none"
    /\ outcome = "none"
    /\ arg_trace_num = <<>>
    /\ arg_freq_trace_num = <<>>
    /\ raw_trace_num = <<>>
    /\ done_before = FALSE
    /\ calls = 0

-----------------------------------------------------------------------------
(* SpecRepair: check_trace_num_array, fix_trace_num_arrays and the repair   *)
(* step of SurveyLine.array_sizes_ok applied to raw arrays                  *)

InitRepair ==
    \E n \in 0..MaxN :
      \E tn \in RawTraceNums(n) :
        \E keys \in (SUBSET FreqKeys) \ {{}} :
          \E assign \in [1..n -> keys] :
            /\ trace_num = tn
            /\ freq_index = [k \in keys |-> IndicesOf(assign, n, k)]
            /\ freq_trace_num = [k \in keys |-> Take(tn, IndicesOf(assign, n, k))]
            /\ bad_indices = <<>>
            /\ bad_values = <<>>
            /\ logged = FALSE
            /\ op = "none"
            /\ outcome = "none"
            /\ arg_trace_num = tn
            /\ arg_freq_trace_num = [k \in keys |-> Take(tn, IndicesOf(assign, n, k))]
            /\ raw_trace_num = tn
            /\ done_before = FALSE
            /\ calls = 0
            /\ ViewIdle
            /\ ImageIdle
            /\ ControlIdle

\* the arrays are the output of a repair: a fix or a check-and-fix returned
RepairDone == done_before \/ (op \in {"fix", "repair"} /\ outcome = "returned")

\* a direct call of check_trace_num_array on the line's trace_num
CheckTraceNumArray ==
    /\ calls < MaxCalls
    /\ LET c == check_trace_num_array(trace_num)
       IN  IF c.raised
           THEN /\ outcome' = "ValueError"
                /\ UNCHANGED <<bad_indices, bad_values, logged>>
           ELSE /\ outcome' = "returned"
                /\ bad_indices' = c.bad_indices
                /\ bad_values' = c.bad_values
                /\ logged' = c.logged
    /\ op' = "check"
    /\ arg_trace_num' = trace_num
    /\ arg_freq_trace_num' = freq_trace_num
    /\ done_before' = RepairDone
    /\ calls' = calls + 1
    /\ UNCHANGED <<trace_num, freq_trace_num, freq_index, raw_trace_num>>
    /\ UNCHANGED besideRepair

\* a direct call of fix_trace_num_arrays with the bad indices of trace_num
FixTraceNumArrays ==
    /\ calls < MaxCalls
    /\ \E order \in Orders(DOMAIN freq_trace_num) :
         LET bad == check_trace_num_array(trace_num).bad_indices
             f == fix_trace_num_arrays(trace_num, bad, freq_trace_num, order)
         IN  /\ trace_num' = f.trace_num
             /\ freq_trace_num' = f.freq_trace_num
             /\ outcome' = IF f.raised THEN "IndexError" ELSE "returned"
             /\ bad_indices' = bad
             /\ bad_values' = Take(trace_num, bad)
    /\ op' = "fix"
    /\ arg_trace_num' = trace_num
    /\ arg_freq_trace_num' = freq_trace_num
    /\ done_before' = RepairDone
    /\ calls' = calls + 1
    /\ UNCHANGED <<freq_index, logged, raw_trace_num>>
    /\ UNCHANGED besideRepair

\* SurveyLine.array_sizes_ok, lines 223-229: check, then fix, then store
ArraySizesOk ==
    /\ calls < MaxCalls
    /\ LET c == check_trace_num_array(trace_num)
       IN  IF c.raised
           THEN /\ outcome' = "ValueError"
                /\ UNCHANGED <<trace_num, freq_trace_num, bad_indices, bad_values,
                               logged>>
           ELSE \E order \in Orders(DOMAIN freq_trace_num) :
                  LET f == fix_trace_num_arrays(trace_num, c.bad_indices,
                                                freq_trace_num, order)
                  IN  /\ trace_num' = f.trace_num
                      /\ freq_trace_num' = f.freq_trace_num
                      /\ outcome' = IF f.raised THEN "IndexError" ELSE "returned"
                      /\ bad_indices' = c.bad_indices
                      /\ bad_values' = c.bad_values
                      /\ logged' = c.logged
    /\ op' = "repair"
    /\ arg_trace_num' = trace_num
    /\ arg_freq_trace_num' = freq_trace_num
    /\ done_before' = RepairDone
    /\ calls' = calls + 1
    /\ UNCHANGED <<freq_index, raw_trace_num>>
    /\ UNCHANGED besideRepair

NextRepair ==
    \/ CheckTraceNumArray
    \/ FixTraceNumArrays
    \/ ArraySizesOk

SpecRepair == InitRepair /\ [][NextRepair]_vars

-----------------------------------------------------------------------------
(* Claims on SpecRepair *)

\* the 0-based indices i with a[i] # i + 1
BadSet(a) == {i \in 0..(Len(a) - 1) : a[i + 1] # i + 1}

\* C1: for every trace_num of length N, with skipped or duplicated numbers,
\* fix_trace_num_arrays returns a trace_num equal to 1, 2, ..., N.
C1_FixReturnsArange ==
    op = "fix" =>
        /\ outcome = "returned"
        /\ trace_num = [i \in 1..Len(arg_trace_num) |-> i]

\* C2: a repair run on the arrays produced by an earlier repair completes and
\* changes neither trace_num nor any entry of any freq_trace_num array.
C2_RepairIdempotent ==
    (done_before /\ op \in {"fix", "repair"}) =>
        /\ outcome = "returned"
        /\ trace_num = arg_trace_num
        /\ freq_trace_num = arg_freq_trace_num

\* a second check-and-fix has run on arrays that the first one had to repair
C2_Witness ==
    /\ done_before
    /\ op = "repair"
    /\ outcome = "returned"
    /\ raw_trace_num # trace_num
    /\ \E k \in DOMAIN freq_trace_num :
          freq_trace_num[k] # Take(raw_trace_num, freq_index[k])

\* C3: fix_trace_num_arrays overwrites, in every frequency array, each entry
\* of a bad global index i with i + 1 and leaves every other entry unchanged,
\* for every input (duplicates, partial frequencies), never indexing outside
\* the frequency array.
C3_FixRewritesBadEntries ==
    op = "fix" =>
        /\ outcome = "returned"
        /\ \A k \in DOMAIN freq_trace_num :
             \A j \in 1..Len(arg_freq_trace_num[k]) :
                LET i == freq_index[k][j]
                IN  freq_trace_num[k][j] =
                        IF i \in BadSet(arg_trace_num) THEN i + 1
                        ELSE arg_freq_trace_num[k][j]

\* C4: check_trace_num_array returns as bad_indices the indices i with
\* trace_num[i] # i + 1 in increasing order and as bad_values the values
\* there; both are empty for a sequence equal to 1..N.
C4_CheckReturnsBadIndices ==
    op = "check" =>
        /\ outcome = "returned"
        /\ {bad_indices[k] : k \in 1..Len(bad_indices)} = BadSet(arg_trace_num)
        /\ \A k \in 1..(Len(bad_indices) - 1) : bad_indices[k] < bad_indices[k + 1]
        /\ Len(bad_values) = Len(bad_indices)
        /\ \A k \in 1..Len(bad_indices) :
              bad_values[k] = arg_trace_num[bad_indices[k] + 1]
        /\ (BadSet(arg_trace_num) = {} => bad_indices = <<>> /\ bad_values = <<>>)

\* C5: check_trace_num_array never raises, whatever the number of bad
\* indices: a direct call returns its result, and the repair step of
\* load_data always goes on to fix_trace_num_arrays.
C5_CheckNeverRaises ==
    op \in {"check", "repair"} => outcome # "ValueError"

-----------------------------------------------------------------------------
(* Handlers of the depth-line form and callers of load_data                 *)

\* the record of a load_data call: array_sizes_ok is called once, at line
\* 180, after the loop of lines 161-166 and the assignment of line 169
LoadRecord(status) ==
    [called |-> TRUE, status |-> status, populated |-> TRUE, repair_runs |-> 1]

\* the read of freq_trace_num a process_line call makes, if it gets as far
\* as reading it (_get_intensity, line 281)
ReadsOf(path, survey_line, load_state) ==
    IF _freq_dict(DOMAIN survey_line.frequencies).status = "ok"
    THEN {[path |-> path, line |-> survey_line.name,
           repaired |-> load_state.status = "ok"]}
    ELSE {}

\* check_if_name_already_exists for the session's line: the name is used
NameUsed(m, survey_line) ==
    IF m.line_type = "current surface" THEN m.name \in DOMAIN survey_line.lake_depths
    ELSE IF m.line_type = "pre-impoundment surface"
    THEN m.name \in DOMAIN survey_line.preimpoundment_depths
    ELSE TRUE

\* the names depth lines are given
DepthNames == {"Type New Name", "ab", "a_b", "current_surface_from_bin"}

\* the keys of SurveyDataSession.depth_dict
PostKey(name) == "POST_" \o name
PreKey(name) == "PRE_" \o name

\* the key a depth line is listed under
KeyOf(m) == IF m.line_type = "current surface" THEN PostKey(m.name) ELSE PreKey(m.name)

\* the keys of depth_dict for a survey line
DepthDictKeys(survey_line) ==
    {PostKey(n) : n \in DOMAIN survey_line.lake_depths}
        \cup {PreKey(n) : n \in DOMAIN survey_line.preimpoundment_depths}

\* the name behind a key of depth_dict
NameOfKey(key) == CHOOSE n \in DepthNames : key = PostKey(n) \/ key = PreKey(n)

\* depth_dict[key]
DepthDictGet(survey_line, key) ==
    IF key \in {PostKey(n) : n \in DepthNames} THEN survey_line.lake_depths[NameOfKey(key)]
    ELSE survey_line.preimpoundment_depths[NameOfKey(key)]

\* ''.join(selected.split('_')[1:]): the selection without its first part and
\* without any underscore
JoinedName(selected) ==
    IF selected = "none" THEN ""
    ELSE IF NameOfKey(selected) = "a_b" THEN "ab"
    ELSE IF NameOfKey(selected) = "current_surface_from_bin" THEN "currentsurfacefrombin"
    ELSE NameOfKey(selected)

\* the survey line with the depth line at depth_dict[key] written to
DepthDictSet(survey_line, key, line) ==
    IF key \in {PostKey(n) : n \in DepthNames}
    THEN [survey_line EXCEPT !.lake_depths[NameOfKey(key)] = line]
    ELSE [survey_line EXCEPT !.preimpoundment_depths[NameOfKey(key)] = line]

\* the survey line after a write to the form's model: when the model is the
\* object a mapping holds, the mapping shows the write
Through(survey_line, m) ==
    IF model_committed = "none" THEN survey_line
    ELSE DepthDictSet(survey_line, model_committed, m)

\* the survey lines after a write to the form's model
SessionLines(m) ==
    IF data_session = "none" THEN survey_lines
    ELSE [survey_lines EXCEPT ![data_session] = Through(@, m)]

\* the handler changes nothing but the form's flags
OnlyFlags ==
    UNCHANGED <<hdf5_file, survey_lines, selected_survey_lines, data_session,
                current_algorithm, selected_depth_line_name, result, reads, loads,
                model_committed, selected_target>>

\* make_from_depth_line: the model takes the arrays of the source line
make_from_depth_line(m, source_line) ==
    [m EXCEPT !.index_array = source_line.index_array,
              !.depth_array = source_line.depth_array,
              !.arrays_from = [source |-> "previous depth line", args |-> <<>>]]

\* update_arrays, lines 282-284: the source is a previous depth line
UpdateFromDepthLine(m1) ==
    IF m1.source_name \notin DepthDictKeys(survey_lines[data_session])
    THEN /\ handler' = <<"update_arrays", "KeyError">>
         /\ no_problem' = TRUE
         /\ UNCHANGED model
         /\ OnlyFlags
    ELSE \E m2 \in {make_from_depth_line(
                        m1, DepthDictGet(survey_lines[data_session], m1.source_name))} :
           /\ model' = m2
           /\ survey_lines' = SessionLines(m2)
           /\ no_problem' = TRUE
           /\ handler' = <<"update_arrays", "none">>
           /\ UNCHANGED <<hdf5_file, selected_survey_lines, data_session,
                          current_algorithm, selected_depth_line_name, result, reads,
                          loads, model_committed, selected_target>>

\* update_arrays, lines 267-300, for the model m1 after the name check
UpdateChecked(m1, np1) ==
    IF np1 /\ m1.source = "previous depth line" THEN UpdateFromDepthLine(m1)
    ELSE IF ~np1 \/ m1.source # "algorithm" \/ current_algorithm.name = "none"
    THEN /\ model' = m1
         /\ survey_lines' = SessionLines(m1)
         /\ no_problem' = TRUE
         /\ handler' = <<"update_arrays", "none">>
         /\ UNCHANGED <<hdf5_file, selected_survey_lines, data_session,
                        current_algorithm, selected_depth_line_name, result, reads,
                        loads, model_committed, selected_target>>
    ELSE \E mk \in {make_from_algorithm(m1, survey_lines[data_session],
                                        current_algorithm, ext) :
                      ext \in Exts(current_algorithm, survey_lines[data_session])} :
           /\ model' = mk.model
           /\ survey_lines' = [survey_lines EXCEPT
                                  ![data_session] = Through(mk.survey_line, mk.model)]
           /\ result' = CallRecord("update_arrays", data_session,
                                   survey_lines[data_session], m1, mk)
           /\ reads' = reads \cup ReadsOf("update_arrays", survey_lines[data_session],
                                          loads[data_session])
           /\ no_problem' = TRUE
           /\ handler' = <<"update_arrays", IF mk.status = "ok" THEN "none" ELSE mk.status>>
           /\ UNCHANGED <<hdf5_file, selected_survey_lines, data_session,
                          current_algorithm, selected_depth_line_name, loads,
                          model_committed, selected_target>>

\* update_arrays, lines 264-300, with no_problem as the lock test left it
UpdateUnlocked(np0) ==
    IF data_session = "none"
    THEN IF selected_depth_line_name = "none" \/ np0
         THEN \* self.data_session is None
              /\ handler' = <<"update_arrays", "AttributeError">>
              /\ no_problem' = np0
              /\ UNCHANGED model
              /\ OnlyFlags
         ELSE UpdateChecked(model, np0)
    ELSE IF selected_depth_line_name = "none" /\ NameUsed(model, survey_lines[data_session])
    THEN UpdateChecked([model EXCEPT !.lock = TRUE], FALSE)
    ELSE UpdateChecked(model, np0)

\* update_arrays, the handler of Update Data
UpdateArrays ==
    /\ handler_runs < MaxRuns
    /\ handler_runs' = handler_runs + 1
    /\ save_log' = NothingSaved
    /\ UpdateUnlocked(IF model.lock THEN FALSE ELSE no_problem)

\* the state apply_to_selected works on while it steps through the lines:
\* `committed` is the key under which the session's line holds the form's
\* own model, `stored` the key under which it holds the last copy
ApplyState(m, np) ==
    [survey_lines |-> SessionLines(m), hdf5_file |-> hdf5_file, model |-> m,
     no_problem |-> np, result |-> result, reads |-> reads, loads |-> loads,
     raised |-> "none", committed |-> model_committed, stored |-> "none",
     edits |-> {}, saves |-> {}]

\* the final selection is set and the depth line is not stored
Committed_final_only(survey_line, m) ==
    IF m.line_type = "current surface"
    THEN [survey_line EXCEPT !.final_lake_depth = m.name]
    ELSE [survey_line EXCEPT !.final_preimpoundment_depth = m.name]

\* the depth line is stored in the survey line and made its final selection
Committed(survey_line, m) ==
    IF m.line_type = "current surface"
    THEN [survey_line EXCEPT !.lake_depths = DictSet(@, m.name, m),
                             !.final_lake_depth = m.name]
    ELSE [survey_line EXCEPT !.preimpoundment_depths = DictSet(@, m.name, m),
                             !.final_preimpoundment_depth = m.name]

\* save_survey_line: the view of the session saves its line when a final
\* selection changes
SavedOnFinal(survey_line, m) ==
    IF /\ survey_line.name = data_session
       /\ m.name # IF m.line_type = "current surface"
                   THEN survey_line.final_lake_depth
                   ELSE survey_line.final_preimpoundment_depth
    THEN {survey_line.name}
    ELSE {}

\* lines 398-406: the depth line is stored in the survey line
Saved(st2, name, line_type, mk) ==
    [st2 EXCEPT
        !.survey_lines[name] = Committed(@, mk.model),
        !.committed = IF name = data_session /\ @ = KeyOf(mk.model) THEN "none" ELSE @,
        !.stored = IF name = data_session THEN KeyOf(mk.model) ELSE "none",
        !.edits = @ \cup {name},
        !.saves = @ \cup SavedOnFinal(st2.survey_lines[name], mk.model)]

\* lines 394-406 for the state st2 after make_from_algorithm
Checked(st2, name, line_type, mk) ==
    IF mk.status # "ok" THEN [st2 EXCEPT !.raised = mk.status]
    ELSE IF ~(ArraysOk(mk.model) /\ st2.no_problem) THEN [st2 EXCEPT !.no_problem = FALSE]
    ELSE Saved(st2, name, line_type, mk)

\* lines 393-406 for the result mk of make_from_algorithm on the line
Made(st1, name, copy, mk) ==
    Checked([st1 EXCEPT
                !.model = mk.model,
                !.stored = "none",
                !.survey_lines[name] = mk.survey_line,
                !.result = CallRecord("apply_to_selected", name,
                                      st1.survey_lines[name], copy, mk),
                !.reads = @ \cup ReadsOf("apply_to_selected", st1.survey_lines[name],
                                         st1.loads[name])],
            name, copy.line_type, mk)

\* lines 388-406 for a line that is loaded
ApplyLoaded(st1, name, m, alg) ==
    {Made(st1, name, [m EXCEPT !.survey_line_name = name],
          make_from_algorithm([m EXCEPT !.survey_line_name = name],
                              st1.survey_lines[name], alg, ext)) :
        ext \in Exts(alg, st1.survey_lines[name])}

\* lines 384-406 for the result ld of load_data
AfterLoad(st, name, m, alg, ld) ==
    IF ld.status # "ok"
    THEN {[st EXCEPT !.survey_lines[name] = ld.survey_line,
                     !.loads[name] = LoadRecord(ld.status),
                     !.raised = ld.status]}
    ELSE ApplyLoaded([st EXCEPT !.survey_lines[name] = ld.survey_line,
                                !.hdf5_file[name] = ld.file,
                                !.loads[name] = LoadRecord(ld.status)],
                     name, m, alg)

\* apply_to_selected, lines 384-406: one line of the loop, for the model m to
\* duplicate and the algorithm alg
ApplyOne(st, name, m, alg) ==
    IF Len(st.survey_lines[name].trace_num) = 0
    THEN UNION {AfterLoad(st, name, m, alg, ld) :
                  ld \in {load_data(st.survey_lines[name], st.hdf5_file[name], order) :
                            order \in Orders(KeysOf(st.hdf5_file[name]))}}
    ELSE ApplyLoaded(st, name, m, alg)

\* the loop of apply_to_selected from the k-th selected line on: an
\* exception ends it
RECURSIVE ApplyLoop(_, _, _, _)
ApplyLoop(st, m, alg, k) ==
    IF k > Len(selected_survey_lines) \/ st.raised # "none" THEN {st}
    ELSE UNION {ApplyLoop(s2, m, alg, k + 1) :
                    s2 \in ApplyOne(st, selected_survey_lines[k], m, alg)}

\* apply_to_selected, lines 362-412, for the result sc of set_current_algorithm
ApplyConfigured(valid, sc) ==
    IF sc.status # "ok"
    THEN /\ handler' = <<"apply_to_selected", sc.status>>
         /\ no_problem' = valid
         /\ save_log' = NothingSaved
         /\ UNCHANGED model
         /\ OnlyFlags
    ELSE IF ~(valid /\ sc.model.args = alg_arg_dict(sc.current_algorithm)
                /\ sc.model.name # "")
    THEN /\ model' = sc.model
         /\ survey_lines' = SessionLines(sc.model)
         /\ current_algorithm' = sc.current_algorithm
         /\ no_problem' = TRUE
         /\ handler' = <<"apply_to_selected", "none">>
         /\ save_log' = NothingSaved
         /\ UNCHANGED <<hdf5_file, selected_survey_lines,
                        data_session, selected_depth_line_name,
                        result, reads, loads, model_committed, selected_target>>
    ELSE \E fin \in ApplyLoop(ApplyState(sc.model, TRUE), sc.model,
                              sc.current_algorithm, 1) :
           /\ survey_lines' = fin.survey_lines
           /\ hdf5_file' = fin.hdf5_file
           /\ result' = fin.result
           /\ reads' = fin.reads
           /\ loads' = fin.loads
           /\ current_algorithm' = sc.current_algorithm
           /\ no_problem' = fin.no_problem
           \* line 412 is not reached when an exception ended the loop
           /\ model' = IF fin.raised = "none" THEN sc.model ELSE fin.model
           /\ model_committed' = IF fin.raised = "none" THEN fin.committed ELSE fin.stored
           /\ save_log' = [edits |-> fin.edits, saves |-> fin.saves]
           /\ handler' = <<"apply_to_selected", fin.raised>>
           /\ UNCHANGED <<selected_survey_lines, data_session,
                          selected_depth_line_name, selected_target>>

\* apply_to_selected, the handler of Apply to Group
ApplyToSelected ==
    /\ handler_runs < MaxRuns
    /\ handler_runs' = handler_runs + 1
    /\ ApplyConfigured(model.source = "algorithm" /\ model.source_name \in AlgorithmNames,
                       set_current_algorithm(model))

\* a caller other than the form loads a line: line.load_data(hdf5_file)
LoadData(name) ==
    /\ handler_runs < MaxRuns
    /\ handler_runs' = handler_runs + 1
    /\ \E ld \in {load_data(survey_lines[name], hdf5_file[name], order) :
                    order \in Orders(KeysOf(hdf5_file[name]))} :
         /\ survey_lines' = [survey_lines EXCEPT ![name] = ld.survey_line]
         /\ hdf5_file' = [hdf5_file EXCEPT ![name] = ld.file]
         /\ loads' = [loads EXCEPT ![name] = LoadRecord(ld.status)]
         /\ handler' = <<"load_data", IF ld.status = "ok" THEN "none" ELSE ld.status>>
         \* the mappings are read anew: they no longer hold the form's model
         /\ model_committed' = IF name = data_session /\ ld.status = "ok"
                               THEN "none" ELSE model_committed
         /\ save_log' = NothingSaved
         /\ UNCHANGED <<selected_survey_lines, data_session, model, current_algorithm,
                        selected_depth_line_name, no_problem, result, reads,
                        selected_target>>

\* SurveyLinePane._survey_line_changed for a line without a data session:
\* load_data is called without its hdf5_file argument
SurveyLineChanged(name) ==
    /\ handler_runs < MaxRuns
    /\ handler_runs' = handler_runs + 1
    /\ handler' = <<"_survey_line_changed", "TypeError">>
    /\ save_log' = NothingSaved
    /\ UNCHANGED <<hdf5_file, survey_lines, selected_survey_lines, data_session, model,
                   current_algorithm, selected_depth_line_name, no_problem,
                   result, reads, loads, model_committed, selected_target>>

\* a field of the form is edited: the write goes to the model object
FormEdit(m2, name) ==
    /\ model' = m2
    /\ survey_lines' = SessionLines(m2)
    /\ handler' = <<name, "none">>
    /\ save_log' = NothingSaved
    /\ UNCHANGED <<hdf5_file, selected_survey_lines, data_session,
                   selected_depth_line_name, no_problem, result, reads, loads,
                   model_committed, selected_target>>

\* the user types a name into the form
EditName(name) ==
    /\ handler_runs < MaxSteps
    /\ handler_runs' = handler_runs + 1
    /\ name # model.name
    /\ FormEdit([model EXCEPT !.name = name], "edit_name")
    /\ UNCHANGED current_algorithm

\* the user chooses the line type in the form
EditLineType(line_type) ==
    /\ handler_runs < MaxSteps
    /\ handler_runs' = handler_runs + 1
    /\ line_type # model.line_type
    /\ FormEdit([model EXCEPT !.line_type = line_type], "edit_line_type")
    /\ UNCHANGED current_algorithm

\* the user sets or clears the lock in the form
EditLock(lock) ==
    /\ handler_runs < MaxSteps
    /\ handler_runs' = handler_runs + 1
    /\ lock # model.lock
    /\ FormEdit([model EXCEPT !.lock = lock], "edit_lock")
    /\ UNCHANGED current_algorithm

\* the user chooses the kind of source in the form
EditSource(source) ==
    /\ handler_runs < MaxSteps
    /\ handler_runs' = handler_runs + 1
    /\ source # model.source
    /\ FormEdit([model EXCEPT !.source = source], "edit_source")
    /\ UNCHANGED current_algorithm

\* _get_source_names: the sources the form offers
source_names(m, session) ==
    IF m.source = "algorithm" THEN AlgorithmNames
    ELSE IF m.source = "previous depth line" /\ session # "none"
    THEN DepthDictKeys(survey_lines[session])
    ELSE {m.source_name}

\* _update_source_name: the user chooses another source in the form
UpdateSourceName(source_name) ==
    /\ handler_runs < MaxSteps
    /\ handler_runs' = handler_runs + 1
    /\ source_name \in source_names(model, data_session)
    /\ source_name # model.source_name
    /\ FormEdit([zero_out_array_data(model) EXCEPT !.source_name = source_name],
                "_update_source_name")
    /\ current_algorithm' = NoAlgorithm

\* change_depth_line: a line is selected in the form, or the New button is
\* pressed (load_new_blank_line); the model is a copy of the selected line
\* or a new template
ChangeDepthLine(new) ==
    /\ handler_runs < MaxSteps
    /\ handler_runs' = handler_runs + 1
    /\ new # selected_depth_line_name \/ new = "none"
    /\ \/ new = "none"
       \/ /\ data_session # "none"
          /\ new \in DepthDictKeys(survey_lines[data_session])
    /\ model' = IF new = "none"
                THEN create_new_line(IF data_session = "none"
                                     THEN "No Survey Line Selected" ELSE data_session)
                ELSE DepthDictGet(survey_lines[data_session], new)
    /\ selected_depth_line_name' = new
    /\ model_committed' = "none"
    /\ current_algorithm' = NoAlgorithm
    /\ no_problem' = TRUE
    /\ handler' = <<"change_depth_line", "none">>
    /\ save_log' = NothingSaved
    /\ UNCHANGED <<hdf5_file, survey_lines, selected_survey_lines, data_session,
                   result, reads, loads, selected_target>>

\* show_configure_algorithm_dialog, the handler of Configure Algorithm: the
\* algorithm is made if there is none (lines 206-207), the user sets the
\* threshold in the dialog and update_model_args follows
Configure(threshold) ==
    /\ handler_runs < MaxSteps
    /\ handler_runs' = handler_runs + 1
    /\ model.source = "algorithm" \/ current_algorithm.name # "none"
    /\ save_log' = NothingSaved
    /\ \E sc \in {IF current_algorithm.name = "none"
                  THEN set_current_algorithm(model)
                  ELSE [status |-> "ok", current_algorithm |-> current_algorithm,
                        model |-> model]} :
         IF sc.status # "ok"
         THEN /\ handler' = <<"show_configure_algorithm_dialog", sc.status>>
              /\ UNCHANGED <<model, no_problem>>
              /\ OnlyFlags
         ELSE \E done \in {AlgorithmSet(sc.model, sc.current_algorithm,
                                        [sc.current_algorithm EXCEPT
                                            !.threshold = threshold])} :
                /\ model' = done.model
                /\ survey_lines' = SessionLines(done.model)
                /\ current_algorithm' = done.current_algorithm
                /\ handler' = <<"show_configure_algorithm_dialog", "none">>
                /\ UNCHANGED <<hdf5_file, selected_survey_lines, data_session,
                               selected_depth_line_name, no_problem, result, reads,
                               loads, model_committed, selected_target>>

\* apply_to_current raises: the session is None
ApplyNoSession(np) ==
    /\ handler' = <<"apply_to_current", "AttributeError">>
    /\ no_problem' = np
    /\ save_log' = NothingSaved
    /\ UNCHANGED model
    /\ OnlyFlags

\* apply_to_current, lines 320-335: the model is stored under its name, made
\* the final selection and selected in the form.  When the selection
\* changes, change_depth_line makes the model a copy of the stored line;
\* when it does not, the stored line and the model stay one object.
ApplyStored(m1) ==
    /\ survey_lines' = [survey_lines EXCEPT ![data_session] = Committed(@, m1)]
    /\ selected_depth_line_name' = KeyOf(m1)
    /\ model' = m1
    /\ model_committed' = IF KeyOf(m1) = selected_depth_line_name THEN KeyOf(m1)
                          ELSE "none"
    /\ current_algorithm' = IF KeyOf(m1) = selected_depth_line_name
                            THEN current_algorithm ELSE NoAlgorithm
    /\ no_problem' = TRUE
    /\ save_log' = [edits |-> {data_session},
                    saves |-> SavedOnFinal(survey_lines[data_session], m1)]
    /\ handler' = <<"apply_to_current", "none">>
    /\ UNCHANGED <<hdf5_file, selected_survey_lines, data_session, result, reads,
                   loads, selected_target>>

\* apply_to_current, lines 317-341, for the model and the flag after the
\* name check
ApplyLockChecked(m1, np1) ==
    IF np1 /\ ~m1.lock
    THEN IF data_session = "none" THEN ApplyNoSession(np1)
         ELSE ApplyStored(m1)
    ELSE /\ model' = m1
         /\ survey_lines' = SessionLines(m1)
         /\ no_problem' = TRUE
         /\ save_log' = NothingSaved
         /\ handler' = <<"apply_to_current", "none">>
         /\ UNCHANGED <<hdf5_file, selected_survey_lines, data_session,
                        current_algorithm, selected_depth_line_name, result, reads,
                        loads, model_committed, selected_target>>

\* apply_to_current, lines 313-341, with no_problem as the checks of the
\* name and the arrays left it
ApplyNamed(np0) ==
    IF model.name = JoinedName(selected_depth_line_name)
    THEN ApplyLockChecked(model, np0)
    ELSE IF data_session = "none" THEN ApplyNoSession(np0)
    ELSE IF NameUsed(model, survey_lines[data_session])
    THEN ApplyLockChecked([model EXCEPT !.lock = TRUE], FALSE)
    ELSE ApplyLockChecked(model, np0)

\* apply_to_current, the handler of Apply
ApplyToCurrent ==
    /\ handler_runs < MaxSteps
    /\ handler_runs' = handler_runs + 1
    /\ ApplyNamed(no_problem /\ model.name # "" /\ ArraysOk(model))

-----------------------------------------------------------------------------
(* ui/survey_line_view.py: the edit target of the plots                     *)

\* lines 609-612 with the flag set whether or not it was False
TargetStored_always_set(line, edited_data, data_changed) ==
    [line EXCEPT !.depth_array = edited_data, !.edited = data_changed]

\* _change_target, lines 609-612: the plot data are stored in the line that
\* was the target; edited is set only while it is False
TargetStored(line, edited_data, data_changed) ==
    [line EXCEPT !.depth_array = edited_data,
                 !.edited = IF line.edited THEN TRUE ELSE data_changed]

\* _change_target, the handler of a change of the edit target, in the
\* Editing mode.  The targets offered are the depth lines but the
\* instrument's own (_get_target_choices); data_changed is whether the trace
\* tool changed the plot of the old target, whose data are what the line
\* holds with, then, the first value moved.
ChangeTarget(new_target, data_changed) ==
    /\ handler_runs < MaxSteps
    /\ handler_runs' = handler_runs + 1
    /\ data_session # "none"
    /\ new_target \in {"None"} \cup (DepthDictKeys(survey_lines[data_session])
                                       \ {PostKey("current_surface_from_bin")})
    /\ new_target # selected_target
    /\ selected_target' = new_target
    /\ handler' = <<"_change_target", "none">>
    /\ UNCHANGED <<hdf5_file, selected_survey_lines, data_session, current_algorithm,
                   selected_depth_line_name, no_problem, result, reads, loads,
                   model_committed>>
    /\ IF selected_target \in DepthDictKeys(survey_lines[data_session])
       THEN \E old \in {DepthDictGet(survey_lines[data_session], selected_target)} :
              \E stored \in {TargetStored(
                                 old,
                                 IF data_changed /\ Len(old.depth_array) > 0
                                 THEN [old.depth_array EXCEPT ![1] = @ + 1]
                                 ELSE old.depth_array,
                                 data_changed)} :
                /\ survey_lines' = [survey_lines EXCEPT
                                       ![data_session] =
                                           DepthDictSet(@, selected_target, stored)]
                /\ model' = IF model_committed = selected_target THEN stored ELSE model
                /\ save_log' = [edits |-> {data_session}, saves |-> {data_session}]
       ELSE /\ save_log' = NothingSaved
            /\ UNCHANGED <<survey_lines, model>>

-----------------------------------------------------------------------------
(* SpecAlg: Update Data on a loaded line, for every configuration of the    *)
(* two algorithms                                                           *)

\* longest line an algorithm is run on
AlgMaxN == 4

\* the configurations of the algorithms: 2 is a threshold of 0.5, a positive
\* blank_above_distance is 1
AlgConfigs ==
    {[DefaultAlgorithm("ThresholdCurrentSurface") EXCEPT
         !.frequency = f, !.threshold = t, !.blank_above_distance = b] :
       f \in {"200"}, t \in {-1, 2}, b \in {-1, 1}}
    \cup
    {[DefaultAlgorithm("ThresholdPreImpoundmentSurface") EXCEPT
         !.frequency = f, !.threshold = t, !.current_surface_line = c] :
       f \in {"200"}, t \in {-1, 2},
       c \in {"current_surface_from_bin", "no such line"}}

\* a line whose load_data has returned: its arrays are the output of the repair
LoadedLine(name, file) == load_data(EmptyLine(name), file, SortedSeq(KeysOf(file)))

\* the form with a data session on the loaded line ld, the lines of `others`
\* not loaded
SessionOn(name, ld, others, alg) ==
    /\ hdf5_file = [l \in LineNames |-> IF l = name THEN ld.file ELSE others]
    /\ survey_lines = [l \in LineNames |->
                         IF l = name THEN ld.survey_line ELSE EmptyLine(l)]
    /\ loads = [l \in LineNames |-> IF l = name THEN LoadRecord("ok") ELSE NotLoaded]
    /\ data_session = name
    /\ model = Configured(create_new_line(name), alg)
    /\ current_algorithm = alg
    /\ selected_depth_line_name = "none"
    /\ no_problem = TRUE
    /\ result = NoCall
    /\ reads = {}
    /\ handler = <<"none", "none">>
    /\ handler_runs = 0
    /\ model_committed = "none"
    /\ selected_target = "None"
    /\ save_log = NothingSaved
    /\ RepairIdle
    /\ ImageIdle
    /\ ControlIdle

InitAlg ==
    \E n \in 1..AlgMaxN :
      \E assign \in [1..n -> FreqKeys] :
        \E holes \in BOOLEAN :
          \E alg \in AlgConfigs :
            /\ SessionOn("L1", LoadedLine("L1", RawFile(Arange1(n), assign, holes)),
                         RawFile(<<>>, <<>>, FALSE), alg)
            /\ selected_survey_lines = <<>>

NextAlg ==
    /\ UpdateArrays
    /\ UNCHANGED besideView

SpecAlg == InitAlg /\ [][NextAlg]_vars

-----------------------------------------------------------------------------
(* SpecLoad: lines of the project file are loaded and the form applies its  *)
(* algorithm to the current line and to the selected group                  *)

\* the algorithms the form is set to in SpecLoad: a manual threshold
LoadConfigs ==
    {[DefaultAlgorithm(a) EXCEPT !.threshold = 2] : a \in AlgorithmNames}

\* the line the form's data session holds when it has one, and the raw trace
\* numbers of that line: one skipped number, which the repair handles
SessionLine == "L2"
SessionTraceNums == <<1, 2, 4>>
SessionFile == RawFile(SessionTraceNums, Cyclic(Len(SessionTraceNums)), FALSE)

\* the form without a data session, no line loaded
NoSession(file1, alg) ==
    /\ hdf5_file = [l \in LineNames |-> IF l = SessionLine THEN SessionFile ELSE file1]
    /\ survey_lines = [l \in LineNames |-> EmptyLine(l)]
    /\ loads = [l \in LineNames |-> NotLoaded]
    /\ data_session = "none"
    /\ model = Configured(create_new_line(""), alg)
    /\ current_algorithm = alg
    /\ selected_depth_line_name = "none"
    /\ no_problem = TRUE
    /\ result = NoCall
    /\ reads = {}
    /\ handler = <<"none", "none">>
    /\ handler_runs = 0
    /\ model_committed = "none"
    /\ selected_target = "None"
    /\ save_log = NothingSaved
    /\ RepairIdle
    /\ ImageIdle
    /\ ControlIdle

InitLoad ==
    \E n \in {0, MaxN} :
      \E tn \in RawTraceNums(n) :
        \E alg \in LoadConfigs :
          /\ \/ NoSession(RawFile(tn, Cyclic(n), FALSE), alg)
             \/ SessionOn(SessionLine, LoadedLine(SessionLine, SessionFile),
                          RawFile(tn, Cyclic(n), FALSE), alg)
          /\ selected_survey_lines = <<"L2", "L1">>

NextLoad ==
    \/ (\E name \in LineNames : LoadData(name)) /\ UNCHANGED besideView
    \/ (\E name \in LineNames : SurveyLineChanged(name)) /\ UNCHANGED besideView
    \/ UpdateArrays /\ UNCHANGED besideView
    \/ ApplyToSelected /\ UNCHANGED besideView

SpecLoad == InitLoad /\ [][NextLoad]_vars

-----------------------------------------------------------------------------
(* Claims on SpecAlg *)

\* the survey line the last process_line call was made on, as it is now
LineNow == survey_lines[result.line]

\* C7: process_line returns trace_array equal to the line's trace_num (length
\* N) and a depth_array of length N, and the DepthLine built from them has
\* index_array[i] = trace_array[i] - 1 for every i.
C7_ProcessLineShapes ==
    (result.called /\ result.status = "ok") =>
        LET N == Len(result.line_before.trace_num)
        IN  /\ result.trace_array = result.line_before.trace_num
            /\ Len(result.trace_array) = N
            /\ Len(result.depth_array) = N
            /\ Len(model.index_array) = N
            /\ Len(model.depth_array) = N
            /\ \A i \in 1..N : model.index_array[i] = result.trace_array[i] - 1

\* process_line has returned for a line of which the chosen frequency holds
\* only some of the traces
C7_Witness ==
    /\ result.called
    /\ result.status = "ok"
    /\ Len(result.trace_array) >= 3
    /\ Len(result.covered) >= 1
    /\ Len(result.covered) < Len(result.trace_array)
    /\ model.index_array = [i \in 1..Len(result.trace_array) |-> i - 1]

\* C8: a process_line call leaves the line's rasters, freq_trace_num,
\* trace_num, heave and the depth arrays of its lake_depths as they were.
C8_ProcessLineNoSideEffects ==
    result.called =>
        /\ LineNow.frequencies = result.line_before.frequencies
        /\ LineNow.freq_trace_num = result.line_before.freq_trace_num
        /\ LineNow.trace_num = result.line_before.trace_num
        /\ LineNow.heave = result.line_before.heave
        /\ DOMAIN LineNow.lake_depths = DOMAIN result.line_before.lake_depths
        /\ \A k \in DOMAIN result.line_before.lake_depths :
              LineNow.lake_depths[k].depth_array
                  = result.line_before.lake_depths[k].depth_array

\* the pre-impoundment algorithm has returned for a raster with a NaN pixel
\* that the median fill replaces, cleared above a current surface line
C8_Witness ==
    /\ result.called
    /\ result.status = "ok"
    /\ current_algorithm.name = "ThresholdPreImpoundmentSurface"
    /\ \E k \in DOMAIN result.line_before.frequencies :
          /\ _freq_dict(DOMAIN result.line_before.frequencies).status = "ok"
          /\ k = _freq_dict(DOMAIN result.line_before.frequencies).dict[current_algorithm.frequency]
          /\ \E i \in 1..Len(result.line_before.frequencies[k]) :
                IsNaN(result.line_before.frequencies[k][i][1])
    /\ \E i \in 1..Len(result.scattered) : ~IsNaN(result.scattered[i])

\* the 1-based positions of the traces the chosen frequency holds
CoveredPositions == {result.covered[k] : k \in 1..Len(result.covered)}

\* C9: before the interpolation every trace the chosen frequency does not
\* hold is NaN in depth_array; with at least one trace that is not NaN the
\* call returns and every entry of the returned depth_array is a number.
C9_GapsFilled ==
    (result.called /\ Len(result.scattered) > 0) =>
        /\ \A i \in 1..Len(result.scattered) :
              i \notin CoveredPositions => IsNaN(result.scattered[i])
        /\ (\E i \in 1..Len(result.scattered) : ~IsNaN(result.scattered[i])) =>
              /\ result.status = "ok"
              /\ Len(result.depth_array) = Len(result.scattered)
              /\ \A i \in 1..Len(result.depth_array) : ~IsNaN(result.depth_array[i])

\* a line with traces before and after the only trace that got an edge
C9_Witness ==
    /\ result.called
    /\ result.status = "ok"
    /\ Len(result.scattered) >= 3
    /\ \E i \in 2..(Len(result.scattered) - 1) :
          /\ ~IsNaN(result.scattered[i])
          /\ \A j \in 1..Len(result.scattered) : j # i => IsNaN(result.scattered[j])
    /\ \E i \in 1..Len(result.scattered) : i \notin CoveredPositions

\* C10: when no trace got an edge (depth_array is NaN everywhere) the call
\* fails: no depth array is returned and the model's index_array and
\* depth_array are not written.
C10_AllNaNFails ==
    (result.called /\ Len(result.scattered) > 0
        /\ \A i \in 1..Len(result.scattered) : IsNaN(result.scattered[i])) =>
        /\ result.status = "ValueError"
        /\ result.depth_array = <<>>
        /\ model.index_array = result.model_before.index_array
        /\ model.depth_array = result.model_before.depth_array

\* the threshold left no edge in any column of a line of several traces
C10_Witness ==
    /\ result.called
    /\ Len(result.scattered) >= 2
    /\ Len(result.covered) >= 1
    /\ \A i \in 1..Len(result.scattered) : IsNaN(result.scattered[i])
    /\ handler = <<"update_arrays", "ValueError">>

\* the configured algorithm is the pre-impoundment one and the line it names
\* as current surface is not among the lake_depths of the line processed
SurfaceLineAbsent ==
    /\ result.called
    /\ current_algorithm.name = "ThresholdPreImpoundmentSurface"
    /\ current_algorithm.current_surface_line \notin DOMAIN result.line_before.lake_depths

\* C11: the pre-impoundment algorithm run with a current_surface_line that is
\* not in the line's lake_depths fails with a lookup error (KeyError), and the
\* failed run writes nothing: the model's arrays, both depth-line mappings and
\* both final selections are as before the call.
C11_MissingSurfaceLineFails ==
    SurfaceLineAbsent =>
        /\ result.status = "KeyError"
        /\ model.index_array = result.model_before.index_array
        /\ model.depth_array = result.model_before.depth_array
        /\ LineNow.lake_depths = result.line_before.lake_depths
        /\ LineNow.preimpoundment_depths = result.line_before.preimpoundment_depths
        /\ LineNow.final_lake_depth = result.line_before.final_lake_depth
        /\ LineNow.final_preimpoundment_depth
               = result.line_before.final_preimpoundment_depth

\* the key a frequency label stands for: the raster recorded at that frequency
LabelKey(label) == IF label = "200" THEN 200 ELSE IF label = "50" THEN 50 ELSE 24

\* C12: on a line with one, two or three rasters the configured frequency
\* label selects the raster of that frequency when the line has it (its trace
\* numbers are read, and a call that returns covers exactly its traces); when
\* the line does not have it the call fails with a lookup error (KeyError).
C12_FrequencyLabelMapped ==
    result.called =>
        IF LabelKey(current_algorithm.frequency) \in DOMAIN result.line_before.frequencies
        THEN /\ \E r \in reads : r.line = result.line
             /\ result.status = "ok" =>
                   result.covered = result.line_before.freq_trace_num[
                                        LabelKey(current_algorithm.frequency)]
        ELSE result.status = "KeyError"

\* C22: in ThresholdCurrentSurface.process_line a blank_above_distance or
\* blank_below_distance that is not negative replaces the limit found by
\* _find_top_bottom by the pixel row distance / pixel_resolution, and the run
\* completes: it does not fail on the conversion of that row to an integer
C22_BlankDistanceOverrides ==
    (/\ result.called
     /\ current_algorithm.name = "ThresholdCurrentSurface"
     /\ \/ current_algorithm.blank_above_distance >= 0
        \/ current_algorithm.blank_below_distance >= 0)
    => result.status # "AttributeError"

-----------------------------------------------------------------------------
(* Claims on SpecLoad *)

\* C6: whenever process_line reads a line's freq_trace_num (Update Data,
\* Apply to Group) the line's repair has completed, and every load_data call
\* runs the repair once, after trace_num and freq_trace_num are populated.
C6_RepairBeforeRead ==
    /\ \A r \in reads : r.repaired
    /\ \A l \in LineNames :
          loads[l].called => (loads[l].repair_runs = 1 /\ loads[l].populated)

-----------------------------------------------------------------------------
(* SpecForm: the depth-line form and the edit target on a loaded line that  *)
(* already has depth lines                                                  *)

\* the raw trace numbers of the line
FormTraceNums == <<1, 2, 3>>

\* a depth line of the file: picked in an earlier session by an algorithm
\* with a threshold of 2
FileLine(name, line_type, alg_name, lock, edited) ==
    [DepthLine(name, "L1", line_type, "algorithm", alg_name,
               alg_arg_dict([DefaultAlgorithm(alg_name) EXCEPT !.threshold = 2]),
               MinusOne(FormTraceNums), <<2, 2, 2>>, lock)
       EXCEPT !.edited = edited]

\* the project file of the line: two current surfaces, the second a copy of
\* the first, and a locked pre-impoundment surface that was edited by hand
FormFile ==
    [RawFile(FormTraceNums, Cyclic(Len(FormTraceNums)), FALSE) EXCEPT
        !.current =
            [n \in {"a_b", "ab"} |->
                IF n = "a_b"
                THEN FileLine("a_b", "current surface", "ThresholdCurrentSurface",
                              FALSE, FALSE)
                ELSE DepthLine("ab", "L1", "current surface", "previous depth line",
                               PostKey("a_b"), <<>>, MinusOne(FormTraceNums),
                               <<2, 2, 2>>, FALSE)],
        !.preimpoundment =
            [n \in {"ab"} |->
                FileLine("ab", "pre-impoundment surface",
                         "ThresholdPreImpoundmentSurface", TRUE, TRUE)]]

InitForm ==
    \E alg \in LoadConfigs :
      /\ SessionOn("L1", LoadedLine("L1", FormFile), RawFile(<<>>, <<>>, FALSE), alg)
      /\ selected_survey_lines = <<"L1">>

NextForm ==
    \/ (\E new \in {"none"} \cup {PostKey(n) : n \in DepthNames}
                            \cup {PreKey(n) : n \in DepthNames} :
          ChangeDepthLine(new)) /\ UNCHANGED besideView
    \/ (\E name \in DepthNames : EditName(name)) /\ UNCHANGED besideView
    \/ (\E line_type \in {"current surface", "pre-impoundment surface"} :
          EditLineType(line_type)) /\ UNCHANGED besideView
    \/ (\E lock \in BOOLEAN : EditLock(lock)) /\ UNCHANGED besideView
    \/ (\E source \in {"algorithm", "previous depth line"} :
          EditSource(source)) /\ UNCHANGED besideView
    \/ (\E source_name \in AlgorithmNames \cup {PostKey(n) : n \in DepthNames} :
          UpdateSourceName(source_name)) /\ UNCHANGED besideView
    \/ (\E threshold \in {2, 3} : Configure(threshold)) /\ UNCHANGED besideView
    \/ UpdateArrays /\ UNCHANGED besideView
    \/ ApplyToCurrent /\ UNCHANGED besideView
    \/ ApplyToSelected /\ UNCHANGED besideView
    \/ (\E new_target \in {"None"} \cup {PostKey(n) : n \in DepthNames}
                                   \cup {PreKey(n) : n \in DepthNames} :
          \E data_changed \in BOOLEAN :
            ChangeTarget(new_target, data_changed)) /\ UNCHANGED besideView

SpecForm == InitForm /\ [][NextForm]_vars

-----------------------------------------------------------------------------
(* Claims on SpecForm *)

\* the survey line of the form's session
SessionLineNow == survey_lines[data_session]

\* the depth line the session's line holds under a key it has before and
\* after the step keeps its arrays and arguments
ArraysKept(key) ==
    /\ DepthDictGet(SessionLineNow', key).index_array
         = DepthDictGet(SessionLineNow, key).index_array
    /\ DepthDictGet(SessionLineNow', key).depth_array
         = DepthDictGet(SessionLineNow, key).depth_array
    /\ DepthDictGet(SessionLineNow', key).args = DepthDictGet(SessionLineNow, key).args

\* the step is an Apply of the unlocked model of the form to the key
AppliedUnlocked(key) ==
    /\ handler' = <<"apply_to_current", "none">>
    /\ save_log'.edits # {}
    /\ ~model.lock
    /\ key = selected_depth_line_name
    /\ key = selected_depth_line_name'

\* C13: while a depth line is locked no operation alters its index_array,
\* depth_array or args: Update Data, Apply to Group and the change of the
\* edit target leave every locked line of the survey line as it was, and so
\* does Apply unless the user selected that line and unlocked it in the form
C13_LockedLinesUnchanged ==
    [][\A key \in DepthDictKeys(SessionLineNow) \cap DepthDictKeys(SessionLineNow') :
         (DepthDictGet(SessionLineNow, key).lock /\ ~AppliedUnlocked(key))
             => ArraysKept(key)]_vars

\* C14: on every line whose load_data has returned, after any sequence of
\* Apply and Apply to Group, final_lake_depth is empty or a key of
\* lake_depths and final_preimpoundment_depth is empty or a key of
\* preimpoundment_depths
C14_FinalSelectionsExist ==
    \A l \in LineNames :
        loads[l].status = "ok" =>
            /\ survey_lines[l].final_lake_depth
                 \in {""} \cup DOMAIN survey_lines[l].lake_depths
            /\ survey_lines[l].final_preimpoundment_depth
                 \in {""} \cup DOMAIN survey_lines[l].preimpoundment_depths

\* an Apply has stored the form's line and made it the final selection in
\* place of the instrument's line
C14_Witness ==
    /\ handler = <<"apply_to_current", "none">>
    /\ save_log.edits # {}
    /\ SessionLineNow.final_lake_depth = model.name
    /\ SessionLineNow.final_lake_depth # "current_surface_from_bin"

\* C15: every depth line stored in lake_depths has line_type 'current
\* surface' and every depth line stored in preimpoundment_depths has
\* line_type 'pre-impoundment surface'
C15_LineTypePartition ==
    \A l \in LineNames :
        /\ \A n \in DOMAIN survey_lines[l].lake_depths :
               survey_lines[l].lake_depths[n].line_type = "current surface"
        /\ \A n \in DOMAIN survey_lines[l].preimpoundment_depths :
               survey_lines[l].preimpoundment_depths[n].line_type
                   = "pre-impoundment surface"

\* the form holds a new line or a copy of the selected line under a new name
NewOrRenamed ==
    \/ selected_depth_line_name = "none"
    \/ model.name # NameOfKey(selected_depth_line_name)

\* the step leaves both mappings and both final selections of the session's
\* line as they were
MappingsKept ==
    /\ SessionLineNow'.lake_depths = SessionLineNow.lake_depths
    /\ SessionLineNow'.preimpoundment_depths = SessionLineNow.preimpoundment_depths
    /\ SessionLineNow'.final_lake_depth = SessionLineNow.final_lake_depth
    /\ SessionLineNow'.final_preimpoundment_depth
         = SessionLineNow.final_preimpoundment_depth

\* C16: an Apply of a new line or of a renamed copy whose name is a key of
\* the mapping for its line_type is rejected, the mappings and both final
\* selections unchanged; a name used only in the other mapping is accepted
C16_UsedNameRejected ==
    [][(handler'[1] = "apply_to_current" /\ NewOrRenamed) =>
          IF NameUsed(model, SessionLineNow)
          THEN MappingsKept
          ELSE (no_problem /\ ArraysOk(model) /\ ~model.lock) => save_log'.edits # {}]_vars

\* every depth line the mapping holds has arrays that are not empty and of
\* equal length
AllArraysOk(mapping) == \A n \in DOMAIN mapping : ArraysOk(mapping[n])

\* C17: every depth line in lake_depths or preimpoundment_depths has
\* non-empty index_array and depth_array of equal length, and an Apply with
\* empty or unequal arrays leaves the mappings and final selections unchanged
C17_CommittedArraysFilled ==
    [][/\ AllArraysOk(SessionLineNow'.lake_depths)
       /\ AllArraysOk(SessionLineNow'.preimpoundment_depths)
       /\ (handler'[1] = "apply_to_current" /\ ~ArraysOk(model)) => MappingsKept]_vars

\* the arrays of every depth line of the mapping whose source is an
\* algorithm were computed by an algorithm with the arguments the line records
ArgsProducedArrays(mapping) ==
    \A n \in DOMAIN mapping :
        (mapping[n].source = "algorithm" /\ ArraysOk(mapping[n])) =>
            mapping[n].arrays_from = [source |-> "algorithm", args |-> mapping[n].args]

\* C18: for every committed depth line with source 'algorithm', args are
\* the parameter values the algorithm had when the stored arrays were
\* computed
C18_ArgsProducedArrays ==
    /\ ArgsProducedArrays(SessionLineNow.lake_depths)
    /\ ArgsProducedArrays(SessionLineNow.preimpoundment_depths)

\* the step stores another depth line object under the key: an Apply that
\* stored the form's model under it, or an Apply to Group
Replaced(key) ==
    \/ handler'[1] = "apply_to_current" /\ save_log'.edits # {}
                                        /\ key = selected_depth_line_name'
    \/ handler'[1] = "apply_to_selected"

\* C19: edited is a one-way flag: a depth line whose edited is True keeps it
\* True through every operation, for the lines the survey line holds and,
\* while the form keeps its model, for the model; a line an Apply stores has
\* the flag of the model it was made from
C19_EditedOneWay ==
    [][/\ \A key \in DepthDictKeys(SessionLineNow) \cap DepthDictKeys(SessionLineNow') :
            (DepthDictGet(SessionLineNow, key).edited /\ ~Replaced(key))
                => DepthDictGet(SessionLineNow', key).edited
       /\ (model.edited /\ handler'[1] # "change_depth_line") => model'.edited
       /\ (handler'[1] = "apply_to_current" /\ save_log'.edits # {} /\ model.edited)
            => DepthDictGet(SessionLineNow', selected_depth_line_name').edited]_vars

\* the edited line was the edit target, the trace tool changed its plot and
\* the target changed: the plot data were stored in the line
C19_Witness ==
    /\ handler = <<"_change_target", "none">>
    /\ save_log.edits # {}
    /\ SessionLineNow.preimpoundment_depths["ab"].edited
    /\ SessionLineNow.preimpoundment_depths["ab"].depth_array
         # FormFile.preimpoundment["ab"].depth_array

\* C20: every survey line the last operation stored a depth line or edited
\* plot data in was saved by save_to_disk before the operation ended
C20_EditsSaved == save_log.edits \subseteq save_log.saves

\* C26: the form works on a copy of the selected depth line: a change of the
\* form's model (a form edit, a new source name, Configure, Update Data) or
\* a new selection leaves every depth line the survey line holds as it was,
\* also directly after an Apply onto the selected key; only Apply, Apply to
\* Group and the change of the edit target store lines
C26_FormEditsACopy ==
    [][handler'[1] \notin {"apply_to_current", "apply_to_selected", "_change_target"}
          => MappingsKept]_vars

\* C27: an Apply of the selected line under its own name and line type,
\* with the model unlocked and its arrays valid, is not taken for a name
\* clash, whether or not the name contains '_': the model is stored under
\* the selected key, which stays selected
C27_OverwriteSelected ==
    [][(/\ handler'[1] = "apply_to_current"
        /\ selected_depth_line_name # "none"
        /\ KeyOf(model) = selected_depth_line_name
        /\ no_problem
        /\ ~model.lock
        /\ ArraysOk(model))
       => /\ save_log'.edits # {}
          /\ selected_depth_line_name' = selected_depth_line_name
          /\ ~model'.lock]_vars

\* the checks of apply_to_current pass for the form's model: a printable
\* name that is the selected line's or a new one, valid arrays, no lock
ValidApply ==
    /\ model.name # ""
    /\ ArraysOk(model)
    /\ ~model.lock
    /\ \/ model.name = JoinedName(selected_depth_line_name)
       \/ ~NameUsed(model, SessionLineNow)

\* C28: no_problem is True whenever Update Data, Apply or Apply to Group
\* has returned, and a failure of one operation does not make a later
\* valid operation fail: an Apply that passes its own checks stores the line
C28_NoProblemRestored ==
    [][/\ (/\ handler'[1] \in {"update_arrays", "apply_to_current", "apply_to_selected"}
           /\ handler'[2] = "none") => no_problem'
       /\ (handler'[1] = "apply_to_current" /\ ValidApply) => save_log'.edits # {}]_vars

\* the depth line the survey line holds under the name and line type of m
StoredLike(survey_line, m) ==
    IF m.line_type = "current surface" THEN survey_line.lake_depths[m.name]
    ELSE survey_line.preimpoundment_depths[m.name]

\* the final selection of the survey line for the line type of m
FinalLike(survey_line, m) ==
    IF m.line_type = "current surface" THEN survey_line.final_lake_depth
    ELSE survey_line.final_preimpoundment_depth

\* C29: Apply to Group stores in each survey line the algorithm succeeds on
\* a copy of the form's model that carries that line's name and makes it
\* the line's final selection; no stored copy is the form's model; and when
\* the handler ends, with or without an exception, the form has the model
\* it had before (set_current_algorithm may have rewritten its arguments
\* and emptied its arrays)
C29_GroupStoresCopies ==
    [][handler'[1] = "apply_to_selected" =>
          /\ \A l \in save_log'.edits :
                /\ StoredLike(survey_lines'[l], model).survey_line_name = l
                /\ FinalLike(survey_lines'[l], model) = model.name
          /\ model_committed' \in {model_committed, "none"}
          /\ [model' EXCEPT !.args = model.args,
                            !.index_array = model.index_array,
                            !.depth_array = model.depth_array,
                            !.arrays_from = model.arrays_from] = model]_vars

-----------------------------------------------------------------------------
(* SpecImage: the image primitives of model/algorithms.py applied to small  *)
(* rasters                                                                  *)

\* most rows and most columns of a raster
ImgRows == 2
ImgCols == 2

\* the rasters of pixels drawn from `pixels`
Rasters(pixels) ==
    UNION {[1..c -> [1..r -> pixels]] : r \in 1..ImgRows, c \in 1..ImgCols}

\* one row index in lo..hi for every column of img
RowArrays(img, lo, hi) == [1..Len(img) -> lo..hi]

\* both algorithms with an automatic (-1) and a manual (0, 2) threshold,
\* without and with an offset
ThresholdConfigs ==
    {[DefaultAlgorithm(name) EXCEPT !.threshold = t, !.threshold_offset = o] :
        name \in AlgorithmNames, t \in {-1, 0, 2}, o \in {0, 1}}

\* the arguments of the call to come: an image and a configured algorithm,
\* a mask with its centers (a center shifted by `top` may lie one row past
\* the last), or an image with the rows of the current surface
InitImage ==
    /\ \/ \E img \in Rasters({0, 4}) : \E self \in ThresholdConfigs :
            image_call = [fn |-> "none", next |-> "threshold",
                          self |-> self, img |-> img]
       \/ \E binary_img \in Rasters(BOOLEAN) :
            \E centers \in RowArrays(binary_img, 0, NumRows(binary_img)) :
              \E surface \in {"upper", "lower"} :
                image_call = [fn |-> "none", next |-> "_find_edge",
                              binary_img |-> binary_img, centers |-> centers,
                              surface |-> surface]
       \/ \E img \in Rasters({0, 4}) :
            \E locs \in RowArrays(img, 0, NumRows(img)) :
              image_call = [fn |-> "none", next |-> "_find_centers",
                            img |-> img, current_surface_locs |-> locs]
    /\ ViewIdle
    /\ RepairIdle
    /\ ControlIdle

\* lines 92-95 of ThresholdCurrentSurface.process_line, lines 162-165 of
\* ThresholdPreImpoundmentSurface.process_line
Threshold ==
    /\ image_call.fn = "none"
    /\ image_call.next = "threshold"
    /\ \E auto \in (IF image_call.self.threshold < 0
                    THEN AutoThresholds(image_call.img) ELSE {0}) :
         image_call' = [fn |-> "threshold", self |-> image_call.self,
                        img |-> image_call.img, auto_threshold |-> auto,
                        actual_threshold |-> ActualThreshold(image_call.self, auto)]

\* _find_edge(binary_img, centers, surface)
FindEdge ==
    /\ image_call.fn = "none"
    /\ image_call.next = "_find_edge"
    /\ image_call' = [fn |-> "_find_edge", binary_img |-> image_call.binary_img,
                      centers |-> image_call.centers, surface |-> image_call.surface,
                      cur_pics |-> _find_edge(image_call.binary_img,
                                              image_call.centers, image_call.surface)]

\* the record of _find_centers(_clear_image_above_line(img, locs))
CentersCall(img, locs, cleared) ==
    [fn |-> "_find_centers", img |-> img, current_surface_locs |-> locs,
     cleared |-> cleared, centers |-> _find_centers(cleared)]

\* lines 160 and 168: _clear_image_above_line, then _find_centers
FindCenters ==
    /\ image_call.fn = "none"
    /\ image_call.next = "_find_centers"
    /\ image_call' = CentersCall(image_call.img, image_call.current_surface_locs,
                                 _clear_image_above_line(image_call.img,
                                     image_call.current_surface_locs,
                                     [nan_mode |-> "nan"]))

NextImage ==
    \/ Threshold /\ UNCHANGED <<repairVars, viewVars, controlVars>>
    \/ FindEdge /\ UNCHANGED <<repairVars, viewVars, controlVars>>
    \/ FindCenters /\ UNCHANGED <<repairVars, viewVars, controlVars>>

SpecImage == InitImage /\ [][NextImage]_vars

-----------------------------------------------------------------------------
(* Claims on SpecImage *)

\* C21: for both algorithms the threshold applied is Otsu's threshold of
\* the image plus threshold_offset when the configured threshold is
\* negative, and the configured threshold, the offset ignored, when it is
\* zero or positive
C21_EffectiveThreshold ==
    image_call.fn = "threshold" =>
        image_call.actual_threshold =
            IF image_call.self.threshold < 0
            THEN image_call.auto_threshold + image_call.self.threshold_offset
            ELSE image_call.self.threshold

\* a manual threshold was applied with an offset configured, the offset
\* left out
C21_Witness ==
    /\ image_call.fn = "threshold"
    /\ image_call.self.threshold >= 0
    /\ image_call.self.threshold_offset # 0
    /\ image_call.actual_threshold = image_call.self.threshold

\* C23: every value of _find_edge that is not NaN is at or above the center
\* of its column (<= centers[i]) for surface 'upper' and at or below it
\* (>= centers[i]) for surface 'lower'
C23_EdgeOnItsSide ==
    image_call.fn = "_find_edge" =>
        \A i \in 1..Len(image_call.centers) :
            ~IsNaN(image_call.cur_pics[i]) =>
                IF image_call.surface = "upper"
                THEN image_call.cur_pics[i] <= image_call.centers[i]
                ELSE image_call.cur_pics[i] >= image_call.centers[i]

\* a lower edge was found in a column that also has a True pixel above its
\* center
C23_Witness ==
    /\ image_call.fn = "_find_edge"
    /\ image_call.surface = "lower"
    /\ \E i \in 1..Len(image_call.centers) :
         /\ ~IsNaN(image_call.cur_pics[i])
         /\ \E r \in 1..image_call.centers[i] : image_call.binary_img[i][r]

\* the rows of the True pixels of column x
TruePixels(x) == {r \in 0..(Len(x) - 1) : x[r + 1]}

\* C24: _find_edge searches a range that includes the center row: for
\* surface 'upper' it returns the nearest True pixel at or before the center
\* of the column, for 'lower' the first True pixel at or after it, and NaN
\* only when that range has no True pixel
C24_EdgeSearchIncludesCenter ==
    image_call.fn = "_find_edge" =>
        \A i \in 1..Len(image_call.centers) :
            image_call.cur_pics[i] =
                IF image_call.surface = "upper"
                THEN LastOf({r \in TruePixels(image_call.binary_img[i]) :
                               r <= image_call.centers[i]})
                ELSE FirstOf({r \in TruePixels(image_call.binary_img[i]) :
                                r >= image_call.centers[i]})

\* C25: _find_centers applied to the result of _clear_image_above_line
\* returns for every column whose current-surface row lies in the image a
\* center row at or below that row (>= surface_locs[i])
C25_CentersBelowSurface ==
    image_call.fn = "_find_centers" =>
        \A i \in 1..Len(image_call.centers) :
            image_call.current_surface_locs[i] < NumRows(image_call.img) =>
                image_call.centers[i] >= image_call.current_surface_locs[i]

-----------------------------------------------------------------------------
(* SpecControl: the edit mode of ControlView and the sub-mode of Mark Bad   *)
(* Data                                                                     *)

\* most events of the control view in a behaviour
MaxEvents == 4

\* edit = Enum('Editing', 'Not Editing', 'Mark Bad Data')
EditModes == {"Editing", "Not Editing", "Mark Bad Data"}

\* _edit_changed that leaves the sub-mode as line 904 sets it
_edit_changed_no_toggle(new_edit) ==
    IF new_edit = "Mark Bad Data" THEN "Unmark" ELSE "off"

\* toggle_mark_bad_data_mode: the new value of mark_bad_data_mode
toggle_mark_bad_data_mode(mode) ==
    IF mode = "Mark" THEN "Unmark"
    ELSE IF mode = "Unmark" THEN "Mark"
    ELSE mode

\* _edit_changed: for 'Mark Bad Data' the sub-mode is set to 'Unmark' and the
\* toggle event is fired, which _bad_data_mode_toggle_fired answers with
\* toggle_mark_bad_data_mode
_edit_changed(new_edit) ==
    IF new_edit = "Mark Bad Data" THEN toggle_mark_bad_data_mode("Unmark")
    ELSE "off"

\* an event and the state it found
ControlEvent(event) == [event |-> event, edit |-> edit, mode |-> mark_bad_data_mode]

\* the edit mode is assigned, by the user or by the survey line view; the
\* listener runs when the value changes
SetEdit(new_edit) ==
    /\ Len(control_log) < MaxEvents
    /\ control_log' = Append(control_log, ControlEvent("edit"))
    /\ edit' = new_edit
    /\ mark_bad_data_mode' = IF new_edit # edit THEN _edit_changed(new_edit)
                             ELSE mark_bad_data_mode

\* one of the two toggle buttons is clicked: each is visible in its sub-mode
ToggleButton ==
    /\ Len(control_log) < MaxEvents
    /\ mark_bad_data_mode \in {"Mark", "Unmark"}
    /\ control_log' = Append(control_log, ControlEvent("button"))
    /\ mark_bad_data_mode' = toggle_mark_bad_data_mode(mark_bad_data_mode)
    /\ UNCHANGED edit

\* a trace tool fires toggle_mask_edit_mode ('t' key):
\* SurveyLineView.toggle_mask_edit calls toggle_mark_bad_data_mode
ToggleKey ==
    /\ Len(control_log) < MaxEvents
    /\ control_log' = Append(control_log, ControlEvent("key"))
    /\ mark_bad_data_mode' = toggle_mark_bad_data_mode(mark_bad_data_mode)
    /\ UNCHANGED edit

InitControl ==
    /\ ControlIdle
    /\ ImageIdle
    /\ ViewIdle
    /\ RepairIdle

NextControl ==
    \/ (\E new_edit \in EditModes : SetEdit(new_edit))
          /\ UNCHANGED <<repairVars, viewVars, imageVars>>
    \/ ToggleButton /\ UNCHANGED <<repairVars, viewVars, imageVars>>
    \/ ToggleKey /\ UNCHANGED <<repairVars, viewVars, imageVars>>

SpecControl == InitControl /\ [][NextControl]_vars

-----------------------------------------------------------------------------
(* Claims on SpecControl *)

\* the last event of the control view
LastEvent == control_log[Len(control_log)]

\* C30: after any sequence of edit-mode changes and toggles (button or 't'
\* key) mark_bad_data_mode is 'off' exactly when edit is not 'Mark Bad
\* Data'; entering 'Mark Bad Data' leaves the sub-mode at 'Mark'; a toggle
\* turns 'Mark' into 'Unmark' and 'Unmark' into 'Mark', and leaves 'off' as
\* it is
C30_MarkModeFollowsEdit ==
    /\ (mark_bad_data_mode = "off") <=> (edit # "Mark Bad Data")
    /\ Len(control_log) > 0 =>
         /\ (/\ LastEvent.event = "edit"
             /\ LastEvent.edit # "Mark Bad Data"
             /\ edit = "Mark Bad Data") => mark_bad_data_mode = "Mark"
         /\ LastEvent.event \in {"button", "key"} =>
              /\ edit = LastEvent.edit
              /\ mark_bad_data_mode =
                   IF LastEvent.mode = "Mark" THEN "Unmark"
                   ELSE IF LastEvent.mode = "Unmark" THEN "Mark"
                   ELSE "off"

\* Mark Bad Data was entered, the key toggled the sub-mode to 'Unmark' and
\* the button toggled it back
C30_Witness ==
    /\ Len(control_log) = 3
    /\ control_log[1].event = "edit"
    /\ control_log[2].event = "key"
    /\ control_log[2].mode = "Mark"
    /\ control_log[3].event = "button"
    /\ control_log[3].mode = "Unmark"
    /\ mark_bad_data_mode = "Mark"

=============================================================================
